---- MODULE Spec2Model ----
(***************************************************************************)
(* A model of the reward-accrual and swap-quote code of the Cetus CLMM SDK *)
(* (RewarderModule and SwapModule in src/unnamed/part_000, TransactionUtil *)
(* in src/src/utils/transaction-util.ts, RouterModule in                   *)
(* src/src/modules/routerModule.ts).                                       *)
(*                                                                         *)
(* bn.js values that can be as wide as 128 bits (growth accumulators,      *)
(* owed amounts) are modelled exactly, as little-endian sequences of       *)
(* 16-bit limbs.  Quantities the model keeps small (liquidity, time,       *)
(* emissions) are plain naturals.                                          *)
(***************************************************************************)
EXTENDS Integers, Sequences, FiniteSets, TLC

VARIABLES
    accIn,        \* accrual: the arguments of posRewardersAmountInternal
    accOut,       \* accrual: the results of the calls made so far, oldest first
    growthGlobal, \* RewarderModule.growthGlobal, the module's cached growth
    req,          \* the reward requests in flight, one record per caller
    swap,         \* SwapModule.calculateRates: its arguments, locals and result
    gas,          \* SwapModule.createSwapTransactionPayload: one request
    router        \* RouterModule: its fields and one call of price

vars == <<accIn, accOut, growthGlobal, req, swap, gas, router>>

\* undefined
NoValue == [none |-> TRUE]

----------------------------------------------------------------------------
(* bn.js integers: little-endian limbs, base 2^16.                         *)

Base == 2^16

U128Limbs == 128 \div 16

\* Two limbs more than a u128: bn.js does not wrap, and no sum or product of
\* the model reaches 2^160.
BigLimbs == U128Limbs + 2

Limbs == 1..BigLimbs

ZERO == [i \in Limbs |-> 0]

FromNat(n) == [i \in Limbs |-> IF i = 1 THEN n % Base
                               ELSE IF i = 2 THEN n \div Base ELSE 0]

ONE == FromNat(1)

RECURSIVE AddFrom(_, _, _, _)
AddFrom(a, b, i, carry) ==
    IF i > BigLimbs THEN <<>>
    ELSE LET s == a[i] + b[i] + carry
         IN  <<s % Base>> \o AddFrom(a, b, i + 1, s \div Base)

\* BN.add
BigAdd(a, b) == AddFrom(a, b, 1, 0)

RECURSIVE SubFrom(_, _, _, _)
SubFrom(a, b, i, borrow) ==
    IF i > BigLimbs THEN <<>>
    ELSE LET s == a[i] - b[i] - borrow
         IN  <<s % Base>> \o SubFrom(a, b, i + 1, IF s < 0 THEN 1 ELSE 0)

RECURSIVE MulFrom(_, _, _, _)
MulFrom(a, k, i, carry) ==
    IF i > BigLimbs THEN <<>>
    ELSE LET s == a[i] * k + carry
         IN  <<s % Base>> \o MulFrom(a, k, i + 1, s \div Base)

\* BN.mul by a factor below 2^14
BigMulSmall(a, k) == MulFrom(a, k, 1, 0)

RECURSIVE GtFrom(_, _, _)
GtFrom(a, b, i) ==
    IF i = 0 THEN FALSE
    ELSE IF a[i] # b[i] THEN a[i] > b[i]
    ELSE GtFrom(a, b, i - 1)

\* BN.gt
BigGt(a, b) == GtFrom(a, b, BigLimbs)

\* BN.shrn by a multiple of 16 bits
BigShr(a, shift) ==
    [i \in Limbs |-> IF i + shift \div 16 <= BigLimbs
                     THEN a[i + shift \div 16] ELSE 0]

IsU128(a) == \A i \in Limbs : i > U128Limbs => a[i] = 0

RECURSIVE DecFrom(_, _, _)
DecFrom(digits, i, acc) ==
    IF i > Len(digits) THEN acc
    ELSE LET next == BigAdd(BigMulSmall(acc, 10), FromNat(digits[i]))
         IN  \* the comparison makes TLC compute next before it recurses
             IF next = ZERO /\ i > 1 /\ acc # ZERO THEN ZERO
             ELSE DecFrom(digits, i + 1, next)

\* new BN('<decimal digits>')
FromDecimal(digits) == DecFrom(digits, 1, ZERO)

----------------------------------------------------------------------------
(* MathUtil (math/utils): the fixed-point primitives the accrual uses.     *)

\* 2^n as a BN, n < 160
TwoPow(n) == [i \in Limbs |-> IF i = n \div 16 + 1 THEN 2^(n % 16) ELSE 0]

\* The low 128 bits of a.
LowU128(a) == [i \in Limbs |-> IF i <= U128Limbs THEN a[i] ELSE 0]

\* wrappingSub(a, b) = (a - b) mod 2^128
subUnderflowU128(n0, n1) == LowU128(SubFrom(n0, n1, 1, 0))

\* mulShiftRight(a, b, shift) = floor(a * b / 2^shift); n0 is below 2^14
checkMulShiftRight(n0, n1, shift, limit) == BigShr(BigMulSmall(n1, n0), shift)

\* mulDivFloor(a, b, denom) = floor(a * b / denom), on small operands
checkMulDivFloor(n0, n1, denom, limit) == (n0 * n1) \div denom

----------------------------------------------------------------------------
(* getRewardInTickRange (utils/tick): growth inside the position's range,  *)
(* one entry per rewarder of the pool.                                     *)

GrowthBelow(pool, tickLower, tickLowerIndex, g, i) ==
    IF pool.current_tick_index >= tickLowerIndex
    THEN tickLower.rewardersGrowthOutside[i]
    ELSE subUnderflowU128(g, tickLower.rewardersGrowthOutside[i])

GrowthAbove(pool, tickUpper, tickUpperIndex, g, i) ==
    IF pool.current_tick_index < tickUpperIndex
    THEN tickUpper.rewardersGrowthOutside[i]
    ELSE subUnderflowU128(g, tickUpper.rewardersGrowthOutside[i])

getRewardInTickRange(pool, tickLower, tickUpper, tickLowerIndex, tickUpperIndex, gg) ==
    [i \in 1..Len(pool.rewarder_infos) |->
        subUnderflowU128(
            subUnderflowU128(gg[i], GrowthBelow(pool, tickLower, tickLowerIndex, gg[i], i)),
            GrowthAbove(pool, tickUpper, tickUpperIndex, gg[i], i))]

----------------------------------------------------------------------------
(* RewarderModule.posRewardersAmountInternal                               *)

\* new BN('3402823669209384634633745948738404'), once per reward slot
ClampThreshold_0 ==
    FromDecimal(<<3,4,0,2,8,2,3,6,6,9,2,0,9,3,8,4,6,3,4,6,3,3,7,4,5,9,4,8,7,3,8,4,0,4>>)

ClampThreshold_1 ==
    FromDecimal(<<3,4,0,2,8,2,3,6,6,9,2,0,9,3,8,4,6,3,4,6,3,3,7,4,5,9,4,8,7,3,8,4,0,4>>)

\* Mutant: the third slot compares against a value next to the u128 maximum.
ClampThreshold_2_NearMax ==
    FromDecimal(<<3,4,0,2,8,2,3,6,6,9,2,0,9,3,8,4,6,3,4,6,3,3,7,4,6,0,7,4,3,1,7,6,8,2,1,0,4,5,5>>)

ClampThreshold_2 ==
    FromDecimal(<<3,4,0,2,8,2,3,6,6,9,2,0,9,3,8,4,6,3,4,6,3,3,7,4,5,9,4,8,7,3,8,4,0,4>>)

\* Mutant: the operands of the subtraction exchanged.
RawGrowthDeltaSwapped(inside, stored) == subUnderflowU128(stored, inside)

\* The growth delta of one slot before the clamp.
RawGrowthDelta(inside, stored) == subUnderflowU128(inside, stored)

ClampGrowthDelta(delta, threshold) == IF BigGt(delta, threshold) THEN ONE ELSE delta

growthDelta_0(rewardersInside, position) ==
    ClampGrowthDelta(RawGrowthDelta(rewardersInside[1], position.reward_growth_inside_0),
                     ClampThreshold_0)

growthDelta_1(rewardersInside, position) ==
    ClampGrowthDelta(RawGrowthDelta(rewardersInside[2], position.reward_growth_inside_1),
                     ClampThreshold_1)

growthDelta_2(rewardersInside, position) ==
    ClampGrowthDelta(RawGrowthDelta(rewardersInside[3], position.reward_growth_inside_2),
                     ClampThreshold_2)

\* Mutant: the amount accrued since the last update alone, without what was owed.
AmountOwedEntryNoPrevious(pool, i, previous, liquidity, growthDelta) ==
    [amount_owed  |-> checkMulShiftRight(liquidity, growthDelta, 64, 128),
     coin_address |-> pool.rewarder_infos[i].coinAddress]

AmountOwedEntry(pool, i, previous, liquidity, growthDelta) ==
    [amount_owed  |-> BigAdd(previous, checkMulShiftRight(liquidity, growthDelta, 64, 128)),
     coin_address |-> pool.rewarder_infos[i].coinAddress]

posRewardersAmountInternal(pool, position, tickLower, tickUpper, gg) ==
    LET rewardersInside ==
            getRewardInTickRange(pool, tickLower, tickUpper, position.tick_lower_index,
                                 position.tick_upper_index, gg)
        e0 == IF Len(rewardersInside) > 0
              THEN <<AmountOwedEntry(pool, 1, position.reward_amount_owed_0,
                                     position.liquidity,
                                     growthDelta_0(rewardersInside, position))>>
              ELSE <<>>
        e1 == IF Len(rewardersInside) > 1
              THEN <<AmountOwedEntry(pool, 2, position.reward_amount_owed_1,
                                     position.liquidity,
                                     growthDelta_1(rewardersInside, position))>>
              ELSE <<>>
        e2 == IF Len(rewardersInside) > 2
              THEN <<AmountOwedEntry(pool, 3, position.reward_amount_owed_2,
                                     position.liquidity,
                                     growthDelta_2(rewardersInside, position))>>
              ELSE <<>>
    IN  e0 \o e1 \o e2

\* Mutant: the call writes the first owed amount back into the position.
PositionAfterCallPersisting(position, amountOwed) ==
    IF Len(amountOwed) > 0
    THEN [position EXCEPT !.reward_amount_owed_0 = amountOwed[1].amount_owed]
    ELSE position

\* What the call leaves in the caller's position: it assigns to no field.
PositionAfterCall(position, amountOwed) == position

----------------------------------------------------------------------------
(* The accrual as a function of its arguments: AccrualSpec draws the       *)
(* arguments and calls posRewardersAmountInternal on them repeatedly.      *)

MaxAccrualCalls == 2

RewarderSlots == 3

U128_MAX ==
    FromDecimal(<<3,4,0,2,8,2,3,6,6,9,2,0,9,3,8,4,6,3,4,6,3,3,7,4,6,0,7,4,3,1,7,6,8,2,1,1,4,5,5>>)

\* <<growth of the pool, growth the position last recorded>> of one slot
GrowthPairs ==
    { <<ZERO, ZERO>>,
      <<FromNat(10000), ZERO>>,
      <<FromNat(5), FromNat(10)>>,
      <<TwoPow(64), ZERO>>,
      <<TwoPow(112), ZERO>>,
      <<ClampThreshold_0, ZERO>>,
      <<BigAdd(ClampThreshold_0, ONE), ZERO>>,
      <<ZERO, ONE>> }

\* liquidity and owed amounts of the position as last persisted
PositionSamples ==
    { [liquidity |-> 2, owed |-> <<ZERO, ZERO, ZERO>>],
      [liquidity |-> 3, owed |-> <<FromNat(7), TwoPow(127), U128_MAX>>] }

TickLowerIndex == 0

TickUpperIndex == 2

MkPool(n, tick, liquidity, lastTime, growth, emissions) ==
    [current_tick_index         |-> tick,
     liquidity                  |-> liquidity,
     rewarder_last_updated_time |-> lastTime,
     rewarder_infos             |->
         [i \in 1..n |-> [growth_global         |-> growth[i],
                          emissions_per_second  |-> emissions[i],
                          coinAddress           |-> i]]]

MkPosition(liquidity, inside, owed) ==
    [liquidity              |-> liquidity,
     tick_lower_index       |-> TickLowerIndex,
     tick_upper_index       |-> TickUpperIndex,
     reward_growth_inside_0 |-> inside[1],
     reward_growth_inside_1 |-> inside[2],
     reward_growth_inside_2 |-> inside[3],
     reward_amount_owed_0   |-> owed[1],
     reward_amount_owed_1   |-> owed[2],
     reward_amount_owed_2   |-> owed[3]]

MkTick(index, outside) ==
    [index |-> index, rewardersGrowthOutside |-> <<outside, outside, outside>>]

\* One pair per slot; the slots the pool has no rewarder for keep zeros.
SlotPairs(n) ==
    { sp \in [1..RewarderSlots -> GrowthPairs] :
        \A i \in 1..RewarderSlots : i > n => sp[i] = <<ZERO, ZERO>> }

\* <<current tick of the pool, growth outside the lower tick>>
TickSamples == { <<-1, 3>>, <<1, 0>>, <<1, 3>>, <<2, 0>> }

AccrualInputsOf(n) ==
    { [pool      |-> MkPool(n, geo[1], 1, 0, [i \in 1..RewarderSlots |-> sp[i][1]],
                            <<0, 0, 0>>),
       position  |-> MkPosition(ps.liquidity,
                                [i \in 1..RewarderSlots |-> sp[i][2]], ps.owed),
       tickLower |-> MkTick(TickLowerIndex, FromNat(geo[2])),
       tickUpper |-> MkTick(TickUpperIndex, ZERO),
       gg        |-> [i \in 1..RewarderSlots |-> sp[i][1]]] :
      geo \in TickSamples, ps \in PositionSamples, sp \in SlotPairs(n) }

AccrualInputs == UNION { AccrualInputsOf(n) : n \in 0..RewarderSlots }

\* The deltas the call computes on the way, kept beside its result.
AccrualTrace(in) ==
    LET inside == getRewardInTickRange(in.pool, in.tickLower, in.tickUpper,
                                       in.position.tick_lower_index,
                                       in.position.tick_upper_index, in.gg)
        stored == <<in.position.reward_growth_inside_0,
                    in.position.reward_growth_inside_1,
                    in.position.reward_growth_inside_2>>
        used(i) == CASE i = 1 -> growthDelta_0(inside, in.position)
                     [] i = 2 -> growthDelta_1(inside, in.position)
                     [] i = 3 -> growthDelta_2(inside, in.position)
    IN  [AmountOwed  |-> posRewardersAmountInternal(in.pool, in.position, in.tickLower,
                                                    in.tickUpper, in.gg),
         inside      |-> inside,
         rawDelta    |-> [i \in 1..Len(inside) |-> RawGrowthDelta(inside[i], stored[i])],
         growthDelta |-> [i \in 1..Len(inside) |-> used(i)]]

RewardIdle == <<ZERO, ZERO, ZERO>>

AccrualInit ==
    /\ accIn \in AccrualInputs
    /\ accOut = <<>>
    /\ growthGlobal = RewardIdle
    /\ req = <<>>
    /\ swap = NoValue
    /\ gas = NoValue
    /\ router = NoValue

AccrualCall ==
    /\ Len(accOut) < MaxAccrualCalls
    /\ LET t == AccrualTrace(accIn)
       IN  /\ accOut' = Append(accOut, t)
           /\ accIn' = [accIn EXCEPT !.position = PositionAfterCall(@, t.AmountOwed)]
    /\ UNCHANGED <<growthGlobal, req, swap, gas, router>>

AccrualNext == AccrualCall

AccrualSpec == AccrualInit /\ [][AccrualNext]_vars

----------------------------------------------------------------------------
(* RewarderModule with callers in flight (RewardSpec).  The chain holds    *)
(* three pools; a caller runs posRewardersAmount or poolRewardersAmount,   *)
(* one step per continuation between two awaits.                           *)

Callers == {1, 2}

PoolIds == {1, 2, 3}

\* Date.parse(new Date().toString()), in milliseconds
Times == {17, 2000}

PositionIds == {1, 2}

\* sdk.Pool.getPool: a fresh object for the pool as the chain has it
ChainPool(p) ==
    CASE p = 1 -> MkPool(3, 1, 4, 1, <<TwoPow(64), TwoPow(65), TwoPow(66)>>, <<8, 4, 0>>)
      [] p = 2 -> MkPool(2, 1, 0, 1, <<TwoPow(70), TwoPow(71)>>, <<8, 4>>)
      [] p = 3 -> MkPool(1, 1, 2, 17, <<TwoPow(80)>>, <<6>>)

\* sdk.Position.getPositionList: the account's positions in the pool
ChainPositions(p) ==
    CASE p = 1 -> << MkPosition(2, <<ZERO, ZERO, ZERO>>, <<ZERO, ZERO, ZERO>>),
                     MkPosition(3, <<FromNat(10), ZERO, ZERO>>,
                                <<FromNat(7), ZERO, ZERO>>) >>
      [] p = 2 -> << MkPosition(2, <<ZERO, ZERO, ZERO>>, <<ZERO, ZERO, ZERO>>) >>
      [] p = 3 -> << MkPosition(2, <<ZERO, ZERO, ZERO>>, <<ZERO, ZERO, ZERO>>) >>

\* sdk.Pool.getTickDataByIndex
ChainTick(p, index) == MkTick(index, ZERO)

IdleRequest ==
    [pc |-> "idle", kind |-> "none", poolId |-> 0, positionId |-> 0, currentTime |-> 0,
     pool |-> NoValue, positions |-> <<>>, position |-> NoValue, idx |-> 0,
     pending |-> <<>>, rewarderAmount |-> <<ZERO, ZERO, ZERO>>,
     result |-> NoValue,
     \* history, not program state
     ownGrowth |-> <<>>, usedGrowth |-> <<>>, owedList |-> <<>>, solo |-> TRUE]

InFlight(r) == req[r].pc \notin {"idle", "done"}

\* updatePoolRewarder, lines 176-191: the module's growthGlobal after the update
UpdatedGrowthGlobal(gg, pool, lastTime, currentTime) ==
    IF pool.liquidity = 0 \/ currentTime = lastTime
    THEN gg
    ELSE LET timeDelta == currentTime \div 1000 - lastTime + 15
         IN  [i \in 1..RewarderSlots |->
                 IF i <= Len(pool.rewarder_infos)
                 THEN BigAdd(pool.rewarder_infos[i].growth_global,
                             FromNat(checkMulDivFloor(
                                 timeDelta, pool.rewarder_infos[i].emissions_per_second,
                                 pool.liquidity, 128)))
                 ELSE gg[i]]

\* posRewardersAmount / poolRewardersAmount up to their first await
StartRequest(r) ==
    /\ req[r].pc = "idle"
    /\ \E kind \in {"pos", "pool"}, p \in PoolIds, t \in Times, id \in PositionIds :
         /\ kind = "pool" => id = 1
         /\ req' = [q \in Callers |->
                      IF q = r
                      THEN [req[r] EXCEPT !.pc = "getPool", !.kind = kind, !.poolId = p,
                                          !.positionId = id, !.currentTime = t,
                                          !.solo = \A o \in Callers \ {r} : ~InFlight(o)]
                      ELSE [req[q] EXCEPT !.solo = IF InFlight(q) THEN FALSE ELSE @]]
    /\ UNCHANGED <<growthGlobal, accIn, accOut, swap, gas, router>>

\* updatePoolRewarder after getPool resolved
UpdatePoolRewarder(r) ==
    /\ req[r].pc = "getPool"
    /\ LET currentPool == ChainPool(req[r].poolId)
           lastTime    == currentPool.rewarder_last_updated_time
           gg          == UpdatedGrowthGlobal(growthGlobal, currentPool, lastTime,
                                              req[r].currentTime)
       IN  /\ growthGlobal' = gg
           /\ req' = [req EXCEPT
                  ![r].pool = [currentPool EXCEPT
                                 !.rewarder_last_updated_time = req[r].currentTime],
                  ![r].ownGrowth = gg,
                  ![r].pc = IF req[r].kind = "pos" THEN "getPosition"
                            ELSE "getPositionList"]
    /\ UNCHANGED <<accIn, accOut, swap, gas, router>>

\* posRewardersAmount after getPositionRewarders resolved
GetPositionRewarders(r) ==
    /\ req[r].pc = "getPosition"
    /\ LET positions == ChainPositions(req[r].poolId)
       IN  IF req[r].positionId > Len(positions)
           THEN req' = [req EXCEPT ![r].pc = "done",
                                   ![r].result = [status |-> "ok", value |-> <<>>]]
           ELSE req' = [req EXCEPT ![r].pc = "tickLower",
                                   ![r].position = positions[req[r].positionId]]
    /\ UNCHANGED <<growthGlobal, accIn, accOut, swap, gas, router>>

\* posRewardersAmount after the lower tick resolved
GetTickLower(r) ==
    /\ req[r].pc = "tickLower"
    /\ req' = [req EXCEPT ![r].pc = "tickUpper"]
    /\ UNCHANGED <<growthGlobal, accIn, accOut, swap, gas, router>>

\* posRewardersAmount after the upper tick resolved: the accrual, and return
PosRewardersAmountInternal(r) ==
    /\ req[r].pc = "tickUpper"
    /\ LET position == req[r].position
           owed == posRewardersAmountInternal(
                       req[r].pool, position,
                       ChainTick(req[r].poolId, position.tick_lower_index),
                       ChainTick(req[r].poolId, position.tick_upper_index), growthGlobal)
       IN  req' = [req EXCEPT ![r].pc = "done",
                              ![r].result = [status |-> "ok", value |-> owed],
                              ![r].usedGrowth = Append(@, growthGlobal),
                              ![r].owedList = Append(@, owed)]
    /\ UNCHANGED <<growthGlobal, accIn, accOut, swap, gas, router>>

\* poolRewardersAmount after getPositionList resolved
GetPositionList(r) ==
    /\ req[r].pc = "getPositionList"
    /\ req' = [req EXCEPT ![r].pc = "getTicks",
                          ![r].positions = ChainPositions(req[r].poolId)]
    /\ UNCHANGED <<growthGlobal, accIn, accOut, swap, gas, router>>

\* The accrual of position k of the request with the growthGlobal of this moment;
\* the caller awaits the value.
AccrueNext(r, k) ==
    LET position == req[r].positions[k]
        owed == posRewardersAmountInternal(
                    req[r].pool, position,
                    ChainTick(req[r].poolId, position.tick_lower_index),
                    ChainTick(req[r].poolId, position.tick_upper_index), growthGlobal)
    IN  [req[r] EXCEPT !.pc = "loop", !.idx = k, !.pending = owed,
                       !.usedGrowth = Append(@, growthGlobal),
                       !.owedList = Append(@, owed)]

\* poolRewardersAmount after getPoolLowerAndUpperTicks resolved (its own awaits
\* touch nothing of the module): the first iteration up to its await
GetPoolLowerAndUpperTicks(r) ==
    /\ req[r].pc = "getTicks"
    /\ IF Len(req[r].positions) = 0
       THEN req' = [req EXCEPT ![r].pc = "done",
                               ![r].result = [status |-> "ok",
                                              value  |-> req[r].rewarderAmount]]
       ELSE req' = [req EXCEPT ![r] = AccrueNext(r, 1)]
    /\ UNCHANGED <<growthGlobal, accIn, accOut, swap, gas, router>>

\* lines 240-242: posRewarderInfo[j].amount_owed for j = 0, 1, 2; reading a
\* property of the undefined posRewarderInfo[j] throws a TypeError
AddOwed(rewarderAmount, posRewarderInfo) ==
    IF Len(posRewarderInfo) < RewarderSlots
    THEN [status |-> "TypeError", value |-> <<>>]
    ELSE [status |-> "ok",
          value  |-> [j \in 1..RewarderSlots |->
                         BigAdd(rewarderAmount[j], posRewarderInfo[j].amount_owed)]]

\* poolRewardersAmount after the await of one position's accrual
PoolRewardersLoop(r) ==
    /\ req[r].pc = "loop"
    /\ LET sum == AddOwed(req[r].rewarderAmount, req[r].pending)
       IN  IF sum.status # "ok"
           THEN req' = [req EXCEPT ![r].pc = "done", ![r].result = sum]
           ELSE IF req[r].idx = Len(req[r].positions)
           THEN req' = [req EXCEPT ![r].pc = "done", ![r].result = sum,
                                   ![r].rewarderAmount = sum.value]
           ELSE req' = [req EXCEPT
                          ![r] = [AccrueNext(r, req[r].idx + 1) EXCEPT
                                     !.rewarderAmount = sum.value]]
    /\ UNCHANGED <<growthGlobal, accIn, accOut, swap, gas, router>>

RewardInit ==
    /\ growthGlobal = <<ZERO, ZERO, ZERO>>
    /\ req = [r \in Callers |-> IdleRequest]
    /\ accIn = NoValue
    /\ accOut = <<>>
    /\ swap = NoValue
    /\ gas = NoValue
    /\ router = NoValue

RewardNext ==
    \E r \in Callers :
        \/ StartRequest(r)
        \/ UpdatePoolRewarder(r)
        \/ GetPositionRewarders(r)
        \/ GetTickLower(r)
        \/ PosRewardersAmountInternal(r)
        \/ GetPositionList(r)
        \/ GetPoolLowerAndUpperTicks(r)
        \/ PoolRewardersLoop(r)

RewardSpec == RewardInit /\ [][RewardNext]_vars

----------------------------------------------------------------------------
(* Swap simulation: fixed-point and tick mathematics.  A sqrt price is an  *)
(* integer with PriceScale as 1.0 (2^64 in the program), ticks are spaced  *)
(* by a factor of 17/16.                                                   *)

PriceScale == 64

FeeRateDenominator == 1000000

MIN_TICK == 0 - 45

MAX_TICK == 45

\* The precision of the powers of the tick factor
PowerScale == 2048

\* (17/16)^k by binary exponentiation, with PowerScale as 1.0
RECURSIVE SqrtPricePower(_)
SqrtPricePower(k) ==
    IF k = 0 THEN PowerScale
    ELSE LET half   == SqrtPricePower(k \div 2)
             square == (half * half) \div PowerScale
         IN  IF k % 2 = 1 THEN (square * 17) \div 16 ELSE square

tickIndexToSqrtPrice(index) ==
    (SqrtPricePower(index - MIN_TICK) * PriceScale) \div PowerScale

MIN_SQRT_PRICE == tickIndexToSqrtPrice(MIN_TICK)

MAX_SQRT_PRICE == tickIndexToSqrtPrice(MAX_TICK)

\* SwapUtils.getDefaultSqrtPriceLimit
getDefaultSqrtPriceLimit(a2b) == IF a2b THEN MIN_SQRT_PRICE ELSE MAX_SQRT_PRICE

mulDivFloor(a, b, denom) == (a * b) \div denom

mulDivCeil(a, b, denom) == (a * b + denom - 1) \div denom

Min(a, b) == IF a <= b THEN a ELSE b

Max(a, b) == IF a >= b THEN a ELSE b

\* token-A delta = liquidity * |delta(1 / sqrtPrice)|
getDeltaA(sqrtPrice0, sqrtPrice1, liquidity, roundUp) ==
    LET lo == Min(sqrtPrice0, sqrtPrice1)
        hi == Max(sqrtPrice0, sqrtPrice1)
    IN  IF roundUp THEN mulDivCeil(liquidity * PriceScale, hi - lo, lo * hi)
        ELSE mulDivFloor(liquidity * PriceScale, hi - lo, lo * hi)

\* token-B delta = liquidity * |delta sqrtPrice|
getDeltaB(sqrtPrice0, sqrtPrice1, liquidity, roundUp) ==
    LET lo == Min(sqrtPrice0, sqrtPrice1)
        hi == Max(sqrtPrice0, sqrtPrice1)
    IN  IF roundUp THEN mulDivCeil(liquidity, hi - lo, PriceScale)
        ELSE mulDivFloor(liquidity, hi - lo, PriceScale)

\* Mutant: the output is rounded up.
getDeltaOutRoundedUp(sqrtPrice0, sqrtPrice1, liquidity, a2b) ==
    IF a2b THEN getDeltaB(sqrtPrice0, sqrtPrice1, liquidity, TRUE)
    ELSE getDeltaA(sqrtPrice0, sqrtPrice1, liquidity, TRUE)

\* The input needed, rounded up, and the output produced, rounded down, when
\* the price moves from one sqrt price to the other
getDeltaIn(sqrtPrice0, sqrtPrice1, liquidity, a2b) ==
    IF a2b THEN getDeltaA(sqrtPrice0, sqrtPrice1, liquidity, TRUE)
    ELSE getDeltaB(sqrtPrice0, sqrtPrice1, liquidity, TRUE)

getDeltaOut(sqrtPrice0, sqrtPrice1, liquidity, a2b) ==
    IF a2b THEN getDeltaB(sqrtPrice0, sqrtPrice1, liquidity, FALSE)
    ELSE getDeltaA(sqrtPrice0, sqrtPrice1, liquidity, FALSE)

\* The landing price of a step that takes in `amount`, never past the target
getNextSqrtPriceFromInput(sqrtPrice, target, liquidity, amount, a2b) ==
    IF amount = 0 THEN sqrtPrice
    ELSE IF a2b
    THEN Max(target, mulDivCeil(liquidity * PriceScale, sqrtPrice,
                                liquidity * PriceScale + amount * sqrtPrice))
    ELSE Min(target, sqrtPrice + mulDivFloor(amount, PriceScale, liquidity))

\* The landing price of a step that gives out `amount`, never past the target
getNextSqrtPriceFromOutput(sqrtPrice, target, liquidity, amount, a2b) ==
    IF amount = 0 THEN sqrtPrice
    ELSE IF a2b
    THEN Max(target, sqrtPrice - mulDivCeil(amount, PriceScale, liquidity))
    ELSE Min(target, mulDivCeil(liquidity * PriceScale, sqrtPrice,
                                liquidity * PriceScale - amount * sqrtPrice))

\* Mutant: the fee of an exact-input step that lands inside the interval is
\* taken on what is left of the amount after the fee, not on the amount.
computeSwapStepFeeOnNet(currentSqrtPrice, targetSqrtPrice, liquidity, remaining, feeRate, byAmountIn, a2b) ==
    LET maxIn  == getDeltaIn(currentSqrtPrice, targetSqrtPrice, liquidity, a2b)
        maxOut == getDeltaOut(currentSqrtPrice, targetSqrtPrice, liquidity, a2b)
        whole  == [nextSqrtPrice |-> targetSqrtPrice, amountIn |-> maxIn,
                   amountOut |-> maxOut,
                   feeAmount |-> mulDivCeil(maxIn, feeRate, FeeRateDenominator - feeRate),
                   covers |-> FALSE]
        net    == remaining - mulDivCeil(remaining, feeRate, FeeRateDenominator)
        next   == IF byAmountIn
                  THEN getNextSqrtPriceFromInput(currentSqrtPrice, targetSqrtPrice,
                                                 liquidity, net, a2b)
                  ELSE getNextSqrtPriceFromOutput(currentSqrtPrice, targetSqrtPrice,
                                                  liquidity, remaining, a2b)
        in     == getDeltaIn(currentSqrtPrice, next, liquidity, a2b)
    IN  IF byAmountIn /\ maxIn >= net
        THEN [nextSqrtPrice |-> next, amountIn |-> remaining,
              amountOut |-> getDeltaOut(currentSqrtPrice, next, liquidity, a2b),
              feeAmount |-> 0, covers |-> TRUE]
        ELSE IF ~byAmountIn /\ maxOut >= remaining
        THEN [nextSqrtPrice |-> next, amountIn |-> in, amountOut |-> remaining,
              feeAmount |-> mulDivCeil(in, feeRate, FeeRateDenominator - feeRate),
              covers |-> TRUE]
        ELSE whole

\* One step over [currentSqrtPrice, targetSqrtPrice] at constant liquidity.
\* covers: the step's capacity covers the remaining amount, so the step lands
\* inside the interval; otherwise the whole interval is consumed.
computeSwapStep(currentSqrtPrice, targetSqrtPrice, liquidity, remaining, feeRate, byAmountIn, a2b) ==
    LET maxIn  == getDeltaIn(currentSqrtPrice, targetSqrtPrice, liquidity, a2b)
        maxOut == getDeltaOut(currentSqrtPrice, targetSqrtPrice, liquidity, a2b)
        wholeFee == mulDivCeil(maxIn, feeRate, FeeRateDenominator - feeRate)
        whole  == [nextSqrtPrice |-> targetSqrtPrice, amountIn |-> maxIn,
                   amountOut |-> maxOut, feeAmount |-> wholeFee, covers |-> FALSE]
    IN  IF byAmountIn
        THEN LET fee  == mulDivCeil(remaining, feeRate, FeeRateDenominator)
                 net  == remaining - fee
                 next == getNextSqrtPriceFromInput(currentSqrtPrice, targetSqrtPrice,
                                                   liquidity, net, a2b)
             IN  IF maxIn >= net
                 THEN [nextSqrtPrice |-> next, amountIn |-> net,
                       amountOut |-> getDeltaOut(currentSqrtPrice, next, liquidity, a2b),
                       feeAmount |-> fee, covers |-> TRUE]
                 ELSE whole
        ELSE LET next == getNextSqrtPriceFromOutput(currentSqrtPrice, targetSqrtPrice,
                                                    liquidity, remaining, a2b)
                 in   == getDeltaIn(currentSqrtPrice, next, liquidity, a2b)
             IN  IF maxOut >= remaining
                 THEN [nextSqrtPrice |-> next, amountIn |-> in,
                       amountOut |-> remaining,
                       feeAmount |-> mulDivCeil(in, feeRate,
                                                FeeRateDenominator - feeRate),
                       covers |-> TRUE]
                 ELSE whole

----------------------------------------------------------------------------
(* SwapModule.calculateRates over computeSwap (SwapSpec).                  *)

\* computeSwap stops crossing ticks at this count; calculateRates compares
\* crossTickNum with the same figure
CrossTickCap == 40

MkSwapTick(index, liquidityNet) ==
    [index |-> index, sqrtPrice |-> tickIndexToSqrtPrice(index),
     liquidityNet |-> liquidityNet]

\* The comparator of the sort is negative: a goes before b
SortsBefore(a, b, a2b) == IF a2b THEN b.index - a.index < 0 ELSE a.index - b.index < 0

\* The place of element i after a stable sort: behind the elements that sort
\* before it and behind the earlier elements that compare equal to it
SortedPlace(ticks, i, a2b) ==
    1 + Cardinality({j \in 1..Len(ticks) :
                        \/ SortsBefore(ticks[j], ticks[i], a2b)
                        \/ j < i /\ ~SortsBefore(ticks[i], ticks[j], a2b)})

\* The array whose element i moved to place[i]
Permuted(ticks, place) ==
    IF place = <<>> THEN ticks
    ELSE [r \in 1..Len(ticks) |-> ticks[CHOOSE i \in 1..Len(ticks) : place[i] = r]]

\* Mutant: the array is handed on as the caller gave it.
SortTicksLeftAsGiven(ticks, a2b) == ticks

\* Array.prototype.sort with the comparator of the direction (stable)
SortTicks(ticks, a2b) ==
    Permuted(ticks, [i \in 1..Len(ticks) |-> SortedPlace(ticks, i, a2b)])

\* Strictly ordered for the direction, hence without duplicate indices
TicksOrdered(ticks, a2b) ==
    \A k \in 1..(Len(ticks) - 1) : SortsBefore(ticks[k], ticks[k + 1], a2b)

\* The reason computeSwap rejects its input, "none" when it accepts it
\* Mutant: the amount is not looked at.
InputErrorAmountUnchecked(a2b, amount, poolData, ticks) ==
    IF poolData.currentSqrtPrice < MIN_SQRT_PRICE
          \/ poolData.currentSqrtPrice > MAX_SQRT_PRICE THEN "PriceOutOfBounds"
    ELSE IF ~TicksOrdered(ticks, a2b) THEN "MalformedTickData"
    ELSE "none"

InputError(a2b, amount, poolData, ticks) ==
    IF amount <= 0 THEN "InvalidAmount"
    ELSE IF poolData.currentSqrtPrice < MIN_SQRT_PRICE
            \/ poolData.currentSqrtPrice > MAX_SQRT_PRICE THEN "PriceOutOfBounds"
    ELSE IF ~TicksOrdered(ticks, a2b) THEN "MalformedTickData"
    ELSE "none"

\* Position in ticks of the next initialized tick in the direction, 0 if none
NextTickPos(ticks, currentSqrtPrice, a2b) ==
    LET ahead == {k \in 1..Len(ticks) :
                     IF a2b THEN ticks[k].sqrtPrice < currentSqrtPrice
                     ELSE ticks[k].sqrtPrice > currentSqrtPrice}
    IN  IF ahead = {} THEN 0 ELSE CHOOSE k \in ahead : \A j \in ahead : k <= j

\* The tick's price clipped to the price limit, the limit without a tick
TargetSqrtPrice(ticks, pos, a2b) ==
    LET sqrtPriceLimit == getDefaultSqrtPriceLimit(a2b)
    IN  IF pos = 0 THEN sqrtPriceLimit
        ELSE IF a2b THEN Max(sqrtPriceLimit, ticks[pos].sqrtPrice)
        ELSE Min(sqrtPriceLimit, ticks[pos].sqrtPrice)

\* Mutant: the loop runs on whatever the number of crossings.
LoopContinuesWithoutCap(sw) ==
    /\ sw.remainingAmount > 0
    /\ sw.currentSqrtPrice # getDefaultSqrtPriceLimit(sw.a2b)

\* The loop condition of computeSwap
LoopContinues(sw) ==
    /\ sw.remainingAmount > 0
    /\ sw.currentSqrtPrice # getDefaultSqrtPriceLimit(sw.a2b)
    /\ sw.crossTickNum < CrossTickCap

\* transClmmpoolDataWithoutTicks
PoolData(currentPool) ==
    [currentSqrtPrice |-> currentPool.current_sqrt_price,
     liquidity |-> currentPool.liquidity, feeRate |-> currentPool.fee_rate]

\* One iteration of the loop of computeSwap
\* Mutant: the tick's liquidityNet is added in both directions.
CrossLiquidityAdded(liquidity, liquidityNet, a2b) == liquidity + liquidityNet

\* The liquidity past a tick: its liquidityNet is added when the price rises
\* through the tick and subtracted when the price falls through it
CrossLiquidity(liquidity, liquidityNet, a2b) ==
    IF a2b THEN liquidity - liquidityNet ELSE liquidity + liquidityNet

SwapIteration(sw) ==
    LET pos    == NextTickPos(sw.swapTicks, sw.currentSqrtPrice, sw.a2b)
        target == TargetSqrtPrice(sw.swapTicks, pos, sw.a2b)
        step   == computeSwapStep(sw.currentSqrtPrice, target, sw.currentLiquidity,
                                  sw.remainingAmount, sw.feeRate, sw.byAmountIn, sw.a2b)
        crossing == ~step.covers /\ pos # 0 /\ target = sw.swapTicks[pos].sqrtPrice
        liquidityNet == IF crossing THEN sw.swapTicks[pos].liquidityNet ELSE 0
    IN  [sw EXCEPT
           !.remainingAmount = IF sw.byAmountIn THEN @ - (step.amountIn + step.feeAmount)
                               ELSE @ - step.amountOut,
           !.currentSqrtPrice = step.nextSqrtPrice,
           !.currentLiquidity = CrossLiquidity(@, liquidityNet, sw.a2b),
           !.amountIn = @ + step.amountIn + step.feeAmount,
           !.amountOut = @ + step.amountOut,
           !.feeAmount = @ + step.feeAmount,
           !.crossTickNum = IF crossing THEN @ + 1 ELSE @,
           !.steps = @ + 1,
           !.lastStep = [step |-> step, target |-> target, crossing |-> crossing,
                         before |-> sw] ]

\* Mutant: the input is compared with the amount in both modes.
IsExceedByInputOnly(a2b, byAmountIn, amount, swapResult) ==
    \/ swapResult.amountIn < amount
    \/ swapResult.crossTickNum > CrossTickCap

\* Mutant: the comparison with the requested amount is left out.
IsExceedWithoutAmount(a2b, byAmountIn, amount, swapResult) ==
    \/ a2b /\ swapResult.nextSqrtPrice < getDefaultSqrtPriceLimit(a2b)
    \/ ~a2b /\ swapResult.nextSqrtPrice > getDefaultSqrtPriceLimit(a2b)
    \/ swapResult.crossTickNum > CrossTickCap

\* calculateRates, lines 736-760: isExceed
IsExceed(a2b, byAmountIn, amount, swapResult) ==
    LET sqrtPriceLimit == getDefaultSqrtPriceLimit(a2b)
    IN  \/ IF byAmountIn THEN swapResult.amountIn < amount
           ELSE swapResult.amountOut < amount
        \/ a2b /\ swapResult.nextSqrtPrice < sqrtPriceLimit
        \/ ~a2b /\ swapResult.nextSqrtPrice > sqrtPriceLimit
        \/ swapResult.crossTickNum > CrossTickCap

\* calculateRates, lines 753-756
ExtraComputeLimit(swapResult) ==
    IF swapResult.crossTickNum > 6 /\ swapResult.crossTickNum < CrossTickCap
    THEN 22000 * (swapResult.crossTickNum - 6)
    ELSE 0

\* Inputs: the caller's tick arrays, as fetched for the whole pool
TicksBetween(from, to) == [k \in 1..(to - from + 1) |-> MkSwapTick(from + k - 1, 0)]

TickArrays ==
    { <<>>,
      << MkSwapTick(0 - 3, 0 - 500) >>,
      << MkSwapTick(2, 0 - 300), MkSwapTick(0 - 6, 600), MkSwapTick(5, 0 - 700),
         MkSwapTick(0 - 2, 400) >>,
      << MkSwapTick(0 - 2, 400), MkSwapTick(0 - 2, 400), MkSwapTick(3, 0 - 300) >>,
      TicksBetween(0 - (CrossTickCap - 1), 0 - 1) \o TicksBetween(1, CrossTickCap - 1),
      TicksBetween(0 - CrossTickCap, 0 - 1) \o TicksBetween(1, CrossTickCap),
      TicksBetween(MIN_TICK + 1, 0 - 1) \o TicksBetween(1, MAX_TICK - 1) }

MkSwapPool(sqrtPrice, liquidity, feeRate) ==
    [current_sqrt_price |-> sqrtPrice, liquidity |-> liquidity, fee_rate |-> feeRate]

SwapPools ==
    { MkSwapPool(tickIndexToSqrtPrice(0), 1000, 3000),
      MkSwapPool(tickIndexToSqrtPrice(0) + 19, 1000, 3000),
      MkSwapPool(MIN_SQRT_PRICE - 1, 1000, 3000) }

SwapAmounts == {0, 1, 100, 900, 5000, 300000}

\* The arguments of one call of calculateRates, before the call
SwapCall(a2b, byAmountIn, amount, currentPool, swapTicks) ==
    [pc |-> "call", a2b |-> a2b, byAmountIn |-> byAmountIn, amount |-> amount,
     currentPool |-> currentPool, swapTicks |-> swapTicks,
     remainingAmount |-> 0, currentSqrtPrice |-> 0, currentLiquidity |-> 0,
     feeRate |-> 0, amountIn |-> 0, amountOut |-> 0, feeAmount |-> 0,
     crossTickNum |-> 0, error |-> "none", swapResult |-> NoValue, result |-> NoValue,
     \* history, not program state
     givenTicks |-> swapTicks, steps |-> 0, lastStep |-> NoValue]

SwapInit ==
    /\ swap \in { SwapCall(a2b, byAmountIn, amount, currentPool, swapTicks) :
                    a2b \in BOOLEAN, byAmountIn \in BOOLEAN, amount \in SwapAmounts,
                    currentPool \in SwapPools, swapTicks \in TickArrays }
    /\ accIn = NoValue
    /\ accOut = <<>>
    /\ growthGlobal = RewardIdle
    /\ req = <<>>
    /\ gas = NoValue
    /\ router = NoValue

\* calculateRates up to the loop of computeSwap: the sort, in place, of the
\* caller's array, then computeSwap's checks and initial state
CalculateRates ==
    /\ swap.pc = "call"
    /\ LET poolData == PoolData(swap.currentPool)
           ticks    == SortTicks(swap.swapTicks, swap.a2b)
           error    == InputError(swap.a2b, swap.amount, poolData, ticks)
       IN  swap' = [swap EXCEPT
                      !.swapTicks = ticks,
                      !.error = error,
                      !.pc = IF error = "none" THEN "loop" ELSE "done",
                      !.remainingAmount = swap.amount,
                      !.currentSqrtPrice = poolData.currentSqrtPrice,
                      !.currentLiquidity = poolData.liquidity,
                      !.feeRate = poolData.feeRate]
    /\ UNCHANGED <<accIn, accOut, growthGlobal, req, gas, router>>

\* One iteration of computeSwap's loop
ComputeSwapStep ==
    /\ swap.pc = "loop"
    /\ LoopContinues(swap)
    /\ swap' = SwapIteration(swap)
    /\ UNCHANGED <<accIn, accOut, growthGlobal, req, gas, router>>

\* computeSwap returns and calculateRates runs to its return (priceImpactPct,
\* a floating-point figure derived from the two prices, is left out)
CalculateRatesReturn ==
    /\ swap.pc = "loop"
    /\ ~LoopContinues(swap)
    /\ LET swapResult == [amountIn |-> swap.amountIn, amountOut |-> swap.amountOut,
                          feeAmount |-> swap.feeAmount,
                          nextSqrtPrice |-> swap.currentSqrtPrice,
                          crossTickNum |-> swap.crossTickNum,
                          isExceedLimit |-> swap.remainingAmount > 0]
       IN  swap' = [swap EXCEPT
                      !.pc = "done",
                      !.swapResult = swapResult,
                      !.result = [estimatedAmountIn |-> swapResult.amountIn,
                                  estimatedAmountOut |-> swapResult.amountOut,
                                  estimatedEndSqrtPrice |-> swapResult.nextSqrtPrice,
                                  estimatedFeeAmount |-> swapResult.feeAmount,
                                  isExceed |-> IsExceed(swap.a2b, swap.byAmountIn,
                                                        swap.amount, swapResult),
                                  extraComputeLimit |-> ExtraComputeLimit(swapResult),
                                  amount |-> swap.amount, aToB |-> swap.a2b,
                                  byAmountIn |-> swap.byAmountIn]]
    /\ UNCHANGED <<accIn, accOut, growthGlobal, req, gas, router>>

SwapNext == CalculateRates \/ ComputeSwapStep \/ CalculateRatesReturn

SwapSpec == SwapInit /\ [][SwapNext]_vars

----------------------------------------------------------------------------
\* Swap transactions: SwapModule.createSwapTransactionPayload and the
\* TransactionUtil functions it calls.  Amounts, which the code carries as
\* decimal strings and converts with BigInt / BN, are integers here.

SUI == "0x2::sui::SUI"
USDC == "0x5::coin::USDC"
CETUS == "0x6::cetus::CETUS"

\* CoinAssist.isSuiCoin
isSuiCoin(coinType) == coinType = SUI

\* Mutant: each flag is taken from the other coin of the pair.
findAdjustCoinCrossed(coinPair) ==
    [isAdjustCoinA |-> isSuiCoin(coinPair.coinTypeB),
     isAdjustCoinB |-> isSuiCoin(coinPair.coinTypeA)]

findAdjustCoin(coinPair) ==
    [isAdjustCoinA |-> isSuiCoin(coinPair.coinTypeA),
     isAdjustCoinB |-> isSuiCoin(coinPair.coinTypeB)]

\* CoinAssist.getCoinAssets: the coins of one type
getCoinAssets(coinType, allCoins) ==
    SelectSeq(allCoins, LAMBDA coin : coin.coinAddress = coinType)

RECURSIVE calculateTotalBalance(_)
\* CoinAssist.calculateTotalBalance
calculateTotalBalance(coins) ==
    IF coins = <<>> THEN 0
    ELSE Head(coins).balance + calculateTotalBalance(Tail(coins))

CoinObjectIds(coins) == { coins[k].coinObjectId : k \in 1..Len(coins) }

BalanceOfIds(coins, ids) ==
    calculateTotalBalance(SelectSeq(coins, LAMBDA coin : coin.coinObjectId \in ids))

\* CoinAssist.selectCoinAssetGreaterThanOrEqual(...).selectedCoins, as the set
\* of the selections it can return (each a set of coin object ids): some
\* coins, none of them excluded, whose balances cover the amount, and no coin
\* when no such coins exist.  Which covering coins it picks is left open.
selectCoinAssetGreaterThanOrEqual(coins, amount, exclude) ==
    LET covering == { ids \in SUBSET (CoinObjectIds(coins) \ exclude) :
                        ids # {} /\ BalanceOfIds(coins, ids) >= amount }
    IN  IF covering = {} THEN {{}} ELSE covering

\* new TransactionBlock()
TransactionBlock(createdBy) ==
    [createdBy |-> createdBy, gasBudget |-> NoValue, moveCall |-> NoValue]

\* The coin argument buildCoinInputForAmount builds (buildVector = true)
buildCoinInputForAmount(allCoins, amount, coinType) ==
    LET coinAssets == getCoinAssets(coinType, allCoins)
    IN  IF amount = 0
        THEN [error |-> "none", transactionArgument |-> NoValue]
        ELSE IF calculateTotalBalance(coinAssets) < amount
        THEN [error |-> "Insufficient balance", transactionArgument |-> NoValue]
        ELSE IF isSuiCoin(coinType)
        THEN [error |-> "none",
              transactionArgument |-> [splitCoins |-> "gas", amount |-> amount]]
        ELSE [error |-> "none",
              transactionArgument |-> [objectsOf |-> coinType, covering |-> amount]]

\* The move call buildSwapTransactionArgs appends (no swap partner, and a
\* configured global_config_id)
buildSwapTransactionArgs(tx, params, primaryCoinInput) ==
    [tx EXCEPT !.moveCall =
        [function |-> IF params.a2b THEN "swap_a2b" ELSE "swap_b2a",
         typeArguments |-> <<params.coinTypeA, params.coinTypeB>>,
         primaryCoinInput |-> primaryCoinInput,
         by_amount_in |-> params.by_amount_in,
         amount |-> params.amount,
         amount_limit |-> params.amount_limit,
         sqrtPriceLimit |-> getDefaultSqrtPriceLimit(params.a2b)]]

\* The amount of the coin the swap takes in
InputAmount(params) == IF params.by_amount_in THEN params.amount ELSE params.amount_limit

InputCoinType(params) == IF params.a2b THEN params.coinTypeA ELSE params.coinTypeB

buildSwapTransaction(params, allCoinAsset) ==
    LET input == buildCoinInputForAmount(allCoinAsset, InputAmount(params),
                                         InputCoinType(params))
    IN  IF input.error # "none"
        THEN [error |-> input.error, tx |-> NoValue]
        ELSE [error |-> "none",
              tx |-> buildSwapTransactionArgs(TransactionBlock("buildSwapTransaction"),
                                              params, input.transactionArgument)]

\* The figure above which the balance left is taken to cover any gas
GasReserve == 1000000000

\* The gas added to the estimate for the split
SplitGas == 500

\* Mutant: the adjustment is decided on the estimate alone.
NewGasWithoutSplit(estimateGas) == estimateGas

NewGas(estimateGas) == estimateGas + SplitGas

\* adjustTransactionForGas from the estimate on, for one selection of gas coins
AdjustAfterEstimate(allCoins, amount, estimateGas, gasCoins) ==
    LET totalAmount == calculateTotalBalance(allCoins)
        newGas      == NewGas(estimateGas)
        unchanged   == [error |-> "none", fixAmount |-> amount,
                        fixCoinInput |-> NoValue, newTx |-> NoValue]
    IN  IF gasCoins = {} /\ totalAmount - amount < newGas
        THEN IF amount - newGas < 0
             THEN [error |-> "gas Insufficient balance", fixAmount |-> NoValue,
                   fixCoinInput |-> NoValue, newTx |-> NoValue]
             ELSE [error |-> "none", fixAmount |-> amount - newGas,
                   fixCoinInput |-> [splitCoins |-> "gas", amount |-> amount - newGas],
                   newTx |-> [TransactionBlock("adjustTransactionForGas")
                                EXCEPT !.gasBudget = newGas]]
        ELSE unchanged

\* Inputs
CoinPairs == { <<SUI, USDC>>, <<USDC, SUI>>, <<USDC, CETUS>> }

GasAmounts == {0, 800, 900, 4800}

GasAmountLimits == {0, 4800}

MkCoin(id, coinType, balance) ==
    [coinObjectId |-> id, coinAddress |-> coinType, balance |-> balance]

\* What getOwnerCoinAssets can return for the sender
Wallets ==
    { <<>>,
      << MkCoin(1, SUI, 1000) >>,
      << MkCoin(1, SUI, 5000), MkCoin(2, USDC, 7000) >>,
      << MkCoin(1, SUI, 5000), MkCoin(2, USDC, 7000), MkCoin(3, SUI, 2000) >>,
      << MkCoin(1, SUI, GasReserve + 5000), MkCoin(2, USDC, 7000) >> }

\* What calculationTxGas can return
GasEstimates == {100, 300, 700}

GasEstimateArgs ==
    { [byAmountIn |-> byAmountIn,
       swapTicks |-> << MkSwapTick(2, 0 - 300), MkSwapTick(0 - 6, 600),
                        MkSwapTick(5, 0 - 700), MkSwapTick(0 - 2, 400) >>,
       currentPool |-> MkSwapPool(tickIndexToSqrtPrice(0), 1000, 3000)] :
      byAmountIn \in BOOLEAN }

MkSwapParams(a2b, byAmountIn, amount, amountLimit, pair) ==
    [a2b |-> a2b, by_amount_in |-> byAmountIn, amount |-> amount,
     amount_limit |-> amountLimit, coinTypeA |-> pair[1], coinTypeB |-> pair[2]]

\* One call of createSwapTransactionPayload, before the call
GasCall(senderAddress, params, gasEstimateArg) ==
    [pc |-> "call", senderAddress |-> senderAddress, params |-> params,
     gasEstimateArg |-> gasEstimateArg, allCoinAsset |-> NoValue, tx |-> NoValue,
     amountCoins |-> {}, newResult |-> NoValue, error |-> "none", result |-> NoValue,
     \* history, not program state
     givenParams |-> params, adjustCalled |-> FALSE, estimated |-> FALSE,
     estimateGas |-> 0, gasCoins |-> {}]

GasIdle == [pc |-> "idle"]

SwapIdle == [pc |-> "idle"]

\* Calls of calculateRates made by the caller itself
DirectAmounts == {0 - 1, 0, 1}

GasInit ==
    /\ \/ /\ gas \in { GasCall(senderAddress,
                               MkSwapParams(a2b, byAmountIn, amount, amountLimit, pair),
                               gasEstimateArg) :
                         senderAddress \in {"", "0xa"}, a2b \in BOOLEAN,
                         byAmountIn \in BOOLEAN, amount \in GasAmounts,
                         amountLimit \in GasAmountLimits, pair \in CoinPairs,
                         gasEstimateArg \in GasEstimateArgs \cup {NoValue} }
          /\ swap = SwapIdle
       \/ /\ gas = GasIdle
          /\ swap \in { SwapCall(a2b, byAmountIn, amount, arg.currentPool, arg.swapTicks) :
                          a2b \in BOOLEAN, byAmountIn \in BOOLEAN,
                          amount \in DirectAmounts, arg \in GasEstimateArgs }
    /\ accIn = NoValue
    /\ accOut = <<>>
    /\ growthGlobal = RewardIdle
    /\ req = <<>>
    /\ router = NoValue

GasThrow(error) == gas' = [gas EXCEPT !.pc = "done", !.error = error]

GasReturn(tx) == gas' = [gas EXCEPT !.pc = "done", !.result = tx]

\* createSwapTransactionPayload up to its await of getOwnerCoinAssets
CreateSwapTransactionPayload ==
    /\ gas.pc = "call"
    /\ IF gas.senderAddress = ""
       THEN GasThrow("senderAddress is empty")
       ELSE gas' = [gas EXCEPT !.pc = "getOwnerCoinAssets"]
    /\ UNCHANGED <<accIn, accOut, growthGlobal, req, swap, router>>

\* The coins arrive; createSwapTransactionPayload picks its builder, and
\* buildSwapTransactionForGas runs up to its await of adjustTransactionForGas
GetOwnerCoinAssets ==
    /\ gas.pc = "getOwnerCoinAssets"
    /\ \E allCoinAsset \in Wallets :
        LET adjust == findAdjustCoin(gas.params)
            built  == buildSwapTransaction(gas.params, allCoinAsset)
            forGas == /\ gas.gasEstimateArg # NoValue
                      /\ \/ gas.params.a2b /\ adjust.isAdjustCoinA
                         \/ ~gas.params.a2b /\ adjust.isAdjustCoinB
        IN  IF built.error # "none"
            THEN gas' = [gas EXCEPT !.pc = "done", !.error = built.error,
                                    !.allCoinAsset = allCoinAsset]
            ELSE IF forGas
            THEN gas' = [gas EXCEPT !.pc = "adjustTransactionForGas",
                                    !.allCoinAsset = allCoinAsset, !.tx = built.tx]
            ELSE gas' = [gas EXCEPT !.pc = "done", !.allCoinAsset = allCoinAsset,
                                    !.tx = built.tx, !.result = built.tx]
    /\ UNCHANGED <<accIn, accOut, growthGlobal, req, swap, router>>

\* adjustTransactionForGas up to its await of calculationTxGas
AdjustTransactionForGas ==
    /\ gas.pc = "adjustTransactionForGas"
    /\ LET allCoins == getCoinAssets(InputCoinType(gas.params), gas.allCoinAsset)
           amount   == InputAmount(gas.params)
       IN  \E amountCoins \in selectCoinAssetGreaterThanOrEqual(allCoins, amount, {}) :
              IF amountCoins = {}
              THEN gas' = [gas EXCEPT !.pc = "done", !.error = "Insufficient balance",
                                      !.adjustCalled = TRUE]
              ELSE IF calculateTotalBalance(allCoins) - amount > GasReserve
              THEN gas' = [gas EXCEPT !.pc = "adjusted", !.adjustCalled = TRUE,
                                      !.amountCoins = amountCoins,
                                      !.newResult = [error |-> "none", fixAmount |-> amount,
                                                     fixCoinInput |-> NoValue,
                                                     newTx |-> NoValue]]
              ELSE gas' = [gas EXCEPT !.pc = "calculationTxGas", !.adjustCalled = TRUE,
                                      !.amountCoins = amountCoins]
    /\ UNCHANGED <<accIn, accOut, growthGlobal, req, swap, router>>

\* The estimate arrives and adjustTransactionForGas runs to its end
CalculationTxGas ==
    /\ gas.pc = "calculationTxGas"
    /\ LET allCoins == getCoinAssets(InputCoinType(gas.params), gas.allCoinAsset)
           amount   == InputAmount(gas.params)
       IN  \E estimateGas \in GasEstimates :
           \E gasCoins \in selectCoinAssetGreaterThanOrEqual(allCoins, estimateGas,
                                                             gas.amountCoins) :
              LET newResult == AdjustAfterEstimate(allCoins, amount, estimateGas, gasCoins)
              IN  IF newResult.error # "none"
                  THEN gas' = [gas EXCEPT !.pc = "done", !.error = newResult.error,
                                          !.estimated = TRUE,
                                          !.estimateGas = estimateGas,
                                          !.gasCoins = gasCoins]
                  ELSE gas' = [gas EXCEPT !.pc = "adjusted", !.newResult = newResult,
                                          !.estimated = TRUE,
                                          !.estimateGas = estimateGas,
                                          !.gasCoins = gasCoins]
    /\ UNCHANGED <<accIn, accOut, growthGlobal, req, swap, router>>

\* buildSwapTransactionForGas after the adjustment, up to the call of
\* calculateRates in fixSwapParams
BuildSwapTransactionForGas ==
    /\ gas.pc = "adjusted"
    /\ IF gas.newResult.fixCoinInput # NoValue /\ gas.newResult.newTx # NoValue
       THEN LET params == IF gas.params.by_amount_in
                          THEN [gas.params EXCEPT !.amount = gas.newResult.fixAmount]
                          ELSE [gas.params EXCEPT !.amount_limit = gas.newResult.fixAmount]
            IN  /\ gas' = [gas EXCEPT !.pc = "fixSwapParams", !.params = params]
                /\ swap' = SwapCall(params.a2b, params.by_amount_in, params.amount,
                                    gas.gasEstimateArg.currentPool,
                                    gas.gasEstimateArg.swapTicks)
       ELSE /\ GasReturn(gas.tx)
            /\ UNCHANGED swap
    /\ UNCHANGED <<accIn, accOut, growthGlobal, req, router>>

\* adjustForSlippage, kept as the expression the code evaluates
adjustForSlippage(toAmount, adjustUp) == [adjustForSlippage |-> toAmount, adjustUp |-> adjustUp]

\* calculateRates has returned or thrown: the rest of fixSwapParams and of
\* buildSwapTransactionForGas
FixSwapParams ==
    /\ gas.pc = "fixSwapParams"
    /\ swap.pc = "done"
    /\ IF swap.error # "none"
       THEN GasThrow(swap.error)
       ELSE LET res      == swap.result
                toAmount == IF gas.gasEstimateArg.byAmountIn THEN res.estimatedAmountOut
                            ELSE res.estimatedAmountIn
                params   == [gas.params EXCEPT !.amount_limit =
                                adjustForSlippage(toAmount, ~gas.gasEstimateArg.byAmountIn)]
                tx       == buildSwapTransactionArgs(gas.newResult.newTx, params,
                                                     gas.newResult.fixCoinInput)
            IN  gas' = [gas EXCEPT !.pc = "done", !.params = params, !.tx = tx,
                                   !.result = tx]
    /\ UNCHANGED <<accIn, accOut, growthGlobal, req, swap, router>>

GasNext ==
    \/ CreateSwapTransactionPayload
    \/ GetOwnerCoinAssets
    \/ AdjustTransactionForGas
    \/ CalculationTxGas
    \/ BuildSwapTransactionForGas
    \/ CalculateRates
    \/ ComputeSwapStep
    \/ CalculateRatesReturn
    \/ FixSwapParams

GasSpec == GasInit /\ [][GasNext]_vars

----------------------------------------------------------------------------
\* Routes: RouterModule.loadGraph, price and preRouterSwapA2B2C

ETH == "0x1::eth::ETH"

\* undefined, where the defined values are strings
Undefined == "undefined"

\* The place of a coin type in the order String.prototype.localeCompare gives
LocaleRank(coin) ==
    CASE coin = ETH -> 0
      [] coin = SUI -> 1
      [] coin = USDC -> 2
      [] coin = CETUS -> 3
      [] OTHER -> 4

localeCompare(a, b) ==
    IF LocaleRank(a) < LocaleRank(b) THEN 0 - 1
    ELSE IF LocaleRank(a) > LocaleRank(b) THEN 1
    ELSE 0

\* A path link; addressMap holds the pool addresses in the order of the Map
MkPathLink(base, quote, addressMap) ==
    [base |-> base, quote |-> quote, addressMap |-> addressMap]

\* Mutant: the links are ordered by localeCompare alone.
OrderPathLinkByCompare(link) ==
    IF localeCompare(link.base, link.quote) < 0
    THEN [link EXCEPT !.base = link.quote, !.quote = link.base]
    ELSE link

\* The body of addPathProvider's loop, for one link
OrderPathLink(link) ==
    LET swapped      == [link EXCEPT !.base = link.quote, !.quote = link.base]
        afterCompare == IF localeCompare(link.base, link.quote) < 0 THEN swapped ELSE link
        afterBase    == IF link.base = SUI THEN swapped ELSE afterCompare
    IN  IF link.quote = SUI THEN link ELSE afterBase

addPathProvider(paths) == [k \in 1..Len(paths) |-> OrderPathLink(paths[k])]

\* _pairSymbol
PairSymbol(base, quote) == [pair |-> <<base, quote>>, reversePair |-> <<quote, base>>]

\* Map.prototype.set
MapSet(map, key, value) ==
    [k \in (DOMAIN map) \cup {key} |-> IF k = key THEN value ELSE map[k]]

RECURSIVE SetPoolAddresses(_, _, _)
\* The poolAddressMap.set calls of loadGraph, link after link
SetPoolAddresses(map, paths, coinAddressMap) ==
    IF paths = <<>> THEN map
    ELSE LET path == Head(paths)
             next == IF path.base \in coinAddressMap /\ path.quote \in coinAddressMap
                     THEN MapSet(map, PairSymbol(path.base, path.quote).pair,
                                 path.addressMap)
                     ELSE map
         IN  SetPoolAddresses(next, Tail(paths), coinAddressMap)

\* The graph after the addEdge calls of loadGraph
AddEdges(graph, paths) ==
    [vertices |-> graph.vertices
                    \cup { paths[k].base : k \in 1..Len(paths) }
                    \cup { paths[k].quote : k \in 1..Len(paths) },
     edges |-> graph.edges \cup { <<paths[k].base, paths[k].quote>> : k \in 1..Len(paths) }]

getPoolAddressMapAndDirection(poolAddressMap, base, quote) ==
    LET symbol == PairSymbol(base, quote)
    IN  IF symbol.pair \in DOMAIN poolAddressMap
        THEN [addressMap |-> poolAddressMap[symbol.pair], direction |-> TRUE]
        ELSE IF symbol.reversePair \in DOMAIN poolAddressMap
        THEN [addressMap |-> poolAddressMap[symbol.reversePair], direction |-> FALSE]
        ELSE NoValue

Adjacent(graph, a, b) == <<a, b>> \in graph.edges \/ <<b, a>> \in graph.edges

\* Graph.findAllPath: the simple paths from source to target, as a set
findAllPath(graph, source, target) ==
    { path \in UNION { [1..n -> graph.vertices] : n \in 2..Cardinality(graph.vertices) } :
        /\ path[1] = source
        /\ path[Len(path)] = target
        /\ \A j, k \in 1..Len(path) : j # k => path[j] # path[k]
        /\ \A j \in 1..(Len(path) - 1) : Adjacent(graph, path[j], path[j + 1]) }

\* Array.from(pathIter): the paths in one of the orders the iterator can have
PathOrders(paths) ==
    { order \in [1..Cardinality(paths) -> paths] :
        \A j, k \in 1..Cardinality(paths) : j # k => order[j] # order[k] }

RECURSIVE Flatten(_)
Flatten(seqs) == IF seqs = <<>> THEN <<>> ELSE Head(seqs) \o Flatten(Tail(seqs))

\* A defined value, where undefined is NoValue and the values are booleans
Defined(value) == [value |-> value]

\* Mutant: paths of any length are considered.
ConsideredPathOfAnyLength(path) == TRUE

\* only consider one and two pair path
ConsideredPath(path) == ~(Len(path) > 3)

\* The candidates price() builds for one path of the graph
CandidatesOfPath(poolAddressMap, path, amount, byAmountIn) ==
    LET lookup(j) == getPoolAddressMapAndDirection(poolAddressMap, path[j], path[j + 1])
        found     == SelectSeq([j \in 1..(Len(path) - 1) |-> j],
                               LAMBDA j : lookup(j) # NoValue)
        swapDirection == [k \in 1..Len(found) |-> lookup(found[k]).direction]
        baseQuote == Flatten([k \in 1..Len(found) |->
                                 << path[found[k]], path[found[k] + 1] >>])
        poolsAB   == IF found # <<>> /\ found[1] = 1 THEN lookup(1).addressMap ELSE <<>>
        poolsBC   == Flatten([k \in 1..Len(found) |->
                                 IF found[k] = 1 THEN <<>> ELSE lookup(found[k]).addressMap])
        one(poolAB) == [stepNums |-> 1, poolAB |-> poolAB, poolBC |-> Undefined,
                        a2b |-> swapDirection[1], b2c |-> NoValue, amount |-> amount,
                        byAmountIn |-> byAmountIn, coinTypeA |-> baseQuote[1],
                        coinTypeB |-> baseQuote[2], coinTypeC |-> Undefined]
        two(poolAB, poolBC) ==
                       [stepNums |-> 2, poolAB |-> poolAB, poolBC |-> poolBC,
                        a2b |-> swapDirection[1], b2c |-> Defined(swapDirection[2]),
                        amount |-> amount, byAmountIn |-> byAmountIn,
                        coinTypeA |-> baseQuote[1], coinTypeB |-> baseQuote[2],
                        coinTypeC |-> baseQuote[4]]
    IN  IF ~ConsideredPath(path) THEN <<>>
        ELSE IF poolsBC # <<>>
        THEN [k \in 1..(Len(poolsAB) * Len(poolsBC)) |->
                 two(poolsAB[((k - 1) \div Len(poolsBC)) + 1],
                     poolsBC[((k - 1) % Len(poolsBC)) + 1])]
        ELSE [k \in 1..Len(poolsAB) |-> one(poolsAB[k])]

\* The largest amount an event carries (amounts are 16 bits wide in the model)
U64_MAX == 65535

\* The candidates the loop of preRouterSwapA2B2C passes over
Skipped(data) == data.is_exceed

\* What the loop compares for candidate i (counted from 1)
ComparedAmount(params, valueData, i) ==
    IF params[1].byAmountIn THEN valueData[i].amount_out
    ELSE IF params[i].stepNums > 1 THEN valueData[i].amount_in
    ELSE valueData[i].amount_in + valueData[i].fee_amount

RECURSIVE SelectFrom(_, _, _, _)
\* The loop of preRouterSwapA2B2C from candidate i on; temp holds tempIndex
\* (counted from 0) and tempMaxAmount
SelectFrom(params, valueData, i, temp) ==
    IF i > Len(valueData) THEN temp
    ELSE LET amount == ComparedAmount(params, valueData, i)
             better == IF params[1].byAmountIn THEN amount > temp.tempMaxAmount
                       ELSE amount < temp.tempMaxAmount
             next   == IF ~Skipped(valueData[i]) /\ better
                       THEN [tempIndex |-> i - 1, tempMaxAmount |-> amount]
                       ELSE temp
         IN  IF next = temp THEN SelectFrom(params, valueData, i + 1, temp)
             ELSE SelectFrom(params, valueData, i + 1, next)

\* preRouterSwapA2B2C once the events are there (the prices it copies from
\* the chosen event are left out)
preRouterSwapA2B2C(params, valueData) ==
    IF valueData = <<>> THEN NoValue
    ELSE LET temp == SelectFrom(params, valueData, 1,
                                [tempIndex |-> 0,
                                 tempMaxAmount |-> IF params[1].byAmountIn THEN 0
                                                   ELSE U64_MAX])
             tempIndex == temp.tempIndex
         IN  [index |-> tempIndex,
              amountIn |-> IF params[1].byAmountIn THEN params[tempIndex + 1].amount
                           ELSE temp.tempMaxAmount,
              amountOut |-> IF params[1].byAmountIn THEN temp.tempMaxAmount
                            ELSE params[tempIndex + 1].amount,
              isExceed |-> valueData[tempIndex + 1].is_exceed,
              stepNum |-> params[tempIndex + 1].stepNums]

\* The candidates price() submits at most
MaxSubmitted == 64

\* Inputs: coin lists and path lists
CoinLists == { {SUI, USDC, CETUS}, {SUI, USDC, CETUS, ETH}, {SUI, USDC} }

\* n pool addresses
Pools(prefix, n) == [k \in 1..n |-> prefix \o ToString(k)]

PathLists ==
    { << MkPathLink(USDC, SUI, Pools("a", 9)), MkPathLink(CETUS, USDC, Pools("b", 8)) >>,
      << MkPathLink(USDC, SUI, <<"p1">>), MkPathLink(SUI, CETUS, <<"p2", "p3">>),
         MkPathLink(CETUS, USDC, <<"p4">>) >>,
      << MkPathLink(USDC, SUI, <<"p1">>), MkPathLink(CETUS, SUI, <<"p2">>),
         MkPathLink(USDC, CETUS, <<>>) >>,
      << MkPathLink(SUI, USDC, <<>>), MkPathLink(CETUS, SUI, <<"p2">>),
         MkPathLink(CETUS, USDC, <<"p4">>), MkPathLink(ETH, USDC, <<"p5">>) >>,
      << MkPathLink(CETUS, SUI, <<"p2">>), MkPathLink(ETH, CETUS, <<"p6">>),
         MkPathLink(ETH, USDC, <<"p5">>), MkPathLink(ETH, SUI, <<"p7">>) >> }

PriceAmount == 1000

\* Inputs: what the events of the simulation can carry for one candidate
EventData(byAmountIn) ==
    IF byAmountIn
    THEN { [is_exceed |-> e, amount_in |-> PriceAmount, amount_out |-> out, fee_amount |-> 2] :
             e \in BOOLEAN, out \in {0, 7} }
    ELSE { [is_exceed |-> e, amount_in |-> in, amount_out |-> PriceAmount, fee_amount |-> fee] :
             e \in BOOLEAN, in \in {7, 9}, fee \in {0, 2} }

\* Inputs: the events of one simulation; for more than three candidates, the
\* sequences in which the first or the last candidate differs from the others
EventSequences(n, byAmountIn) ==
    IF n <= 3 THEN [1..n -> EventData(byAmountIn)]
    ELSE { [i \in 1..n |-> IF i = j THEN one ELSE others] :
             j \in {1, n}, one \in EventData(byAmountIn), others \in EventData(byAmountIn) }

\* new RouterModule(sdk)
RouterConstructed ==
    [pc |-> "constructed", pathProviders |-> <<>>, coinProviders |-> {},
     coinAddressMap |-> {}, poolAddressMap |-> <<>>,
     graph |-> [vertices |-> {}, edges |-> {}],
     base |-> NoValue, quote |-> NoValue, byAmountIn |-> NoValue,
     preRouterSwapParams |-> <<>>, params |-> <<>>, valueData |-> <<>>,
     preSwapResult |-> NoValue, result |-> NoValue, error |-> "none",
     \* history, not program state
     givenPaths |-> <<>>, allPaths |-> <<>>]

RouterInit ==
    /\ router = RouterConstructed
    /\ swap = NoValue
    /\ gas = NoValue
    /\ accIn = NoValue
    /\ accOut = <<>>
    /\ growthGlobal = RewardIdle
    /\ req = <<>>

\* loadGraph(coins, paths), on a module that has loaded nothing yet
LoadGraph ==
    /\ router.pc = "constructed"
    /\ \E coins \in CoinLists, paths \in PathLists :
        LET provider       == addPathProvider(paths)
            coinAddressMap == router.coinAddressMap \cup coins
        IN  router' = [router EXCEPT
                         !.pc = "loaded",
                         !.coinProviders = coins,
                         !.pathProviders = Append(router.pathProviders, provider),
                         !.givenPaths = Append(router.givenPaths, paths),
                         !.coinAddressMap = coinAddressMap,
                         !.graph = AddEdges(router.graph, provider),
                         !.poolAddressMap = SetPoolAddresses(router.poolAddressMap, provider,
                                                             coinAddressMap)]
    /\ UNCHANGED <<accIn, accOut, growthGlobal, req, swap, gas>>

\* price(base, quote, amount, byAmountIn, ...) without swapWithMultiPoolParams,
\* up to its await of preRouterSwapA2B2C
Price ==
    /\ router.pc = "loaded"
    /\ \E base \in {SUI, USDC, CETUS, ETH}, quote \in {SUI, USDC, CETUS, ETH},
          byAmountIn \in BOOLEAN :
        /\ base # quote
        /\ LET call == [router EXCEPT !.base = base, !.quote = quote,
                                      !.byAmountIn = byAmountIn]
           IN  IF base \notin router.coinAddressMap \/ quote \notin router.coinAddressMap
               THEN router' = [call EXCEPT !.pc = "done"]
               ELSE IF base \notin router.graph.vertices \/ quote \notin router.graph.vertices
               THEN router' = [call EXCEPT !.pc = "done", !.error = "findAllPath"]
               ELSE \E allPaths \in PathOrders(findAllPath(router.graph, base, quote)) :
                      LET preRouterSwapParams ==
                              Flatten([k \in 1..Len(allPaths) |->
                                          CandidatesOfPath(router.poolAddressMap, allPaths[k],
                                                           PriceAmount, byAmountIn)])
                      IN  IF preRouterSwapParams = <<>>
                          THEN router' = [call EXCEPT !.pc = "done"]
                          ELSE router' = [call EXCEPT
                                            !.pc = "preRouterSwapA2B2C",
                                            !.allPaths = allPaths,
                                            !.preRouterSwapParams = preRouterSwapParams,
                                            !.params = SubSeq(preRouterSwapParams, 1,
                                                              Min(MaxSubmitted,
                                                                  Len(preRouterSwapParams)))]
    /\ UNCHANGED <<accIn, accOut, growthGlobal, req, swap, gas>>

\* The events of the simulation arrive, one for each candidate or none at all,
\* and preRouterSwapA2B2C runs to its return
PreRouterSwapA2B2C ==
    /\ router.pc = "preRouterSwapA2B2C"
    /\ \E valueData \in {<<>>} \cup EventSequences(Len(router.params), router.byAmountIn) :
        router' = [router EXCEPT
                     !.pc = "preSwapResult",
                     !.valueData = valueData,
                     !.preSwapResult = preRouterSwapA2B2C(router.params, valueData)]
    /\ UNCHANGED <<accIn, accOut, growthGlobal, req, swap, gas>>

\* The rest of price()
PriceReturn ==
    /\ router.pc = "preSwapResult"
    /\ LET preSwapResult == router.preSwapResult
       IN  IF preSwapResult = NoValue
           THEN router' = [router EXCEPT
                             !.pc = "done",
                             !.result = [amountIn |-> 0, amountOut |-> 0, paths |-> <<>>,
                                         a2b |-> FALSE, b2c |-> FALSE,
                                         byAmountIn |-> router.byAmountIn,
                                         isExceed |-> TRUE, coinTypeA |-> "",
                                         coinTypeB |-> "", coinTypeC |-> Undefined]]
           ELSE LET best == router.preRouterSwapParams[preSwapResult.index + 1]
                    two  == preSwapResult.stepNum > 1
                    onePath ==
                        [amountIn |-> preSwapResult.amountIn,
                         amountOut |-> preSwapResult.amountOut,
                         poolAddress |-> IF best.poolBC # Undefined
                                         THEN <<best.poolAB, best.poolBC>>
                                         ELSE <<best.poolAB>>,
                         a2b |-> IF two THEN <<best.a2b, best.b2c.value>> ELSE <<best.a2b>>,
                         isExceed |-> preSwapResult.isExceed,
                         coinType |-> IF two
                                      THEN <<best.coinTypeA, best.coinTypeB, best.coinTypeC>>
                                      ELSE <<best.coinTypeA, best.coinTypeB>>]
                IN  router' = [router EXCEPT
                                 !.pc = "done",
                                 !.result = [amountIn |-> preSwapResult.amountIn,
                                             amountOut |-> preSwapResult.amountOut,
                                             paths |-> <<onePath>>,
                                             a2b |-> best.a2b,
                                             b2c |-> IF two THEN best.b2c.value ELSE NoValue,
                                             byAmountIn |-> router.byAmountIn,
                                             isExceed |-> preSwapResult.isExceed,
                                             coinTypeA |-> best.coinTypeA,
                                             coinTypeB |-> best.coinTypeB,
                                             coinTypeC |-> IF two THEN best.coinTypeC
                                                           ELSE Undefined]]
    /\ UNCHANGED <<accIn, accOut, growthGlobal, req, swap, gas>>

RouterNext == LoadGraph \/ Price \/ PreRouterSwapA2B2C \/ PriceReturn

RouterSpec == RouterInit /\ [][RouterNext]_vars

----------------------------------------------------------------------------
(* Claims about the accrual (AccrualSpec).                                 *)

StoredInside(position) ==
    <<position.reward_growth_inside_0, position.reward_growth_inside_1,
      position.reward_growth_inside_2>>

StoredOwed(position) ==
    <<position.reward_amount_owed_0, position.reward_amount_owed_1,
      position.reward_amount_owed_2>>

\* previous + floor(liquidity * delta / 2^64)
OwedFrom(previous, liquidity, delta) ==
    BigAdd(previous, BigShr(BigMulSmall(delta, liquidity), 64))

LiteralThreshold ==
    FromDecimal(<<3,4,0,2,8,2,3,6,6,9,2,0,9,3,8,4,6,3,4,6,3,3,7,4,5,9,4,8,7,3,8,4,0,4>>)

ClampedAt(delta, threshold) == IF BigGt(delta, threshold) THEN ONE ELSE delta

EntriesInRewarderOrder(t) ==
    /\ Len(t.AmountOwed) = Len(accIn.pool.rewarder_infos)
    /\ \A i \in 1..Len(t.AmountOwed) :
         t.AmountOwed[i].coin_address = accIn.pool.rewarder_infos[i].coinAddress

\* C5, as stated: one entry per rewarder, in rewarder order, with amount_owed =
\* the owed amount recorded before + floor(liquidity * delta / 2^64), delta being
\* the wrapping difference of the growth inside and the stored growth inside.
C5_OwedFromWrappingDelta ==
    \A k \in 1..Len(accOut) :
        /\ EntriesInRewarderOrder(accOut[k])
        /\ \A i \in 1..Len(accOut[k].AmountOwed) :
             accOut[k].AmountOwed[i].amount_owed =
                 OwedFrom(StoredOwed(accIn.position)[i], accIn.position.liquidity,
                          subUnderflowU128(accOut[k].inside[i],
                                           StoredInside(accIn.position)[i]))

\* C5, amended: the same with delta replaced by 1 when the wrapping difference
\* exceeds 3402823669209384634633745948738404.
C5_OwedFromClampedDelta ==
    \A k \in 1..Len(accOut) :
        /\ EntriesInRewarderOrder(accOut[k])
        /\ \A i \in 1..Len(accOut[k].AmountOwed) :
             accOut[k].AmountOwed[i].amount_owed =
                 OwedFrom(StoredOwed(accIn.position)[i], accIn.position.liquidity,
                          ClampedAt(subUnderflowU128(accOut[k].inside[i],
                                                     StoredInside(accIn.position)[i]),
                                    LiteralThreshold))

\* Liquidity 2, delta 10000, nothing owed before: mulShiftRight(2, 10000, 64) + 0.
C5_Witness ==
    /\ Len(accOut) > 0
    /\ Len(accOut[1].AmountOwed) = RewarderSlots
    /\ accIn.position.liquidity = 2
    /\ accIn.position.reward_amount_owed_0 = ZERO
    /\ accOut[1].rawDelta[1] = FromNat(10000)
    /\ accOut[1].AmountOwed[1].amount_owed = BigShr(FromNat(2 * 10000), 64)

\* C6: the delta of two snapshots a (new) and b (stored) is (a - b) mod 2^128:
\* it is below 2^128, adding b back gives a modulo 2^128, for a < b it is
\* 2^128 - (b - a), for a = 5 and b = 10 it is 340282366920938463463374607431768211451,
\* and it is zero only when a = b.
C6_WrappingDifference ==
    \A k \in 1..Len(accOut) : \A i \in 1..Len(accOut[k].rawDelta) :
        LET a == accOut[k].inside[i]
            b == StoredInside(accIn.position)[i]
            d == accOut[k].rawDelta[i]
        IN  /\ IsU128(d)
            /\ LowU128(BigAdd(d, b)) = a
            /\ BigGt(b, a) => BigAdd(d, SubFrom(b, a, 1, 0)) = TwoPow(128)
            /\ (a = FromNat(5) /\ b = FromNat(10)) =>
                 d = FromDecimal(<<3,4,0,2,8,2,3,6,6,9,2,0,9,3,8,4,6,3,4,6,3,3,7,4,6,0,7,4,3,1,7,6,8,2,1,1,4,5,1>>)
            /\ (d = ZERO) => (a = b)

C6_Witness ==
    /\ Len(accOut) > 0
    /\ Len(accOut[1].rawDelta) > 0
    /\ accOut[1].inside[1] = FromNat(5)
    /\ accIn.position.reward_growth_inside_0 = FromNat(10)
    /\ accOut[1].rawDelta[1] = SubFrom(TwoPow(128), FromNat(5), 1, 0)

\* C7, as stated: a delta that is not near the u128 maximum (here: below 2^127,
\* the lower half of the range) is used unchanged.
C7_ClampOnlyNearMax ==
    \A k \in 1..Len(accOut) : \A i \in 1..Len(accOut[k].rawDelta) :
        BigGt(TwoPow(127), accOut[k].rawDelta[i]) =>
            accOut[k].growthDelta[i] = accOut[k].rawDelta[i]

\* C7, amended: in each of the three slots the delta is replaced by 1 exactly
\* when it exceeds 3402823669209384634633745948738404 (about 2^128 / 100000),
\* is used unchanged otherwise, and the owed amount is computed from it.
C7_ClampAboveLiteral ==
    \A k \in 1..Len(accOut) : \A i \in 1..Len(accOut[k].rawDelta) :
        /\ accOut[k].growthDelta[i] = ClampedAt(accOut[k].rawDelta[i], LiteralThreshold)
        /\ accOut[k].AmountOwed[i].amount_owed =
               OwedFrom(StoredOwed(accIn.position)[i], accIn.position.liquidity,
                        accOut[k].growthDelta[i])

\* A delta of 2^112, far from the maximum, is replaced by 1 in the third slot.
C7_Witness ==
    /\ Len(accOut) > 0
    /\ Len(accOut[1].rawDelta) = RewarderSlots
    /\ accOut[1].rawDelta[3] = TwoPow(112)
    /\ accOut[1].growthDelta[3] = ONE
    /\ accOut[1].rawDelta[1] = LiteralThreshold
    /\ accOut[1].growthDelta[1] = LiteralThreshold

----------------------------------------------------------------------------
(* Claims about callers in flight (RewardSpec).                            *)

Others(r) == Callers \ {r}

Finished(r) == req[r].pc = "done"

\* The accrual of one position of the request with the given growth values
AccrualWith(r, position, gg) ==
    posRewardersAmountInternal(
        req[r].pool, position,
        ChainTick(req[r].poolId, position.tick_lower_index),
        ChainTick(req[r].poolId, position.tick_upper_index), gg)

RECURSIVE PoolTotalsWith(_, _, _, _)
PoolTotalsWith(r, k, rewarderAmount, gg) ==
    IF k > Len(req[r].positions)
    THEN [status |-> "ok", value |-> rewarderAmount]
    ELSE LET sum == AddOwed(rewarderAmount, AccrualWith(r, req[r].positions[k], gg))
         IN  IF sum.status # "ok" THEN sum
             ELSE PoolTotalsWith(r, k + 1, sum.value, gg)

\* What the request returns when nothing else touches the module between its
\* own updatePoolRewarder and its return
ResultAlone(r) ==
    IF req[r].kind = "pos"
    THEN IF req[r].position = NoValue
         THEN [status |-> "ok", value |-> <<>>]
         ELSE [status |-> "ok",
               value  |-> AccrualWith(r, req[r].position, req[r].ownGrowth)]
    ELSE PoolTotalsWith(r, 1, <<ZERO, ZERO, ZERO>>, req[r].ownGrowth)

\* C3: a finished request whose companion request is for a different pool
\* returned what it would have returned alone, from the growth values its own
\* updatePoolRewarder left.
C3_NoInterference ==
    \A r \in Callers :
        (Finished(r) /\ \A o \in Others(r) :
                            req[o].pc # "idle" /\ req[o].poolId # req[r].poolId)
            => req[r].result = ResultAlone(r)

\* This pool's own growth for slot i: growth_global plus its emission delta
\* since the last update (no delta without liquidity or without elapsed time)
OwnGrowth(pool, currentTime, i) ==
    LET info == pool.rewarder_infos[i]
        lastTime == pool.rewarder_last_updated_time
    IN  IF pool.liquidity = 0 \/ currentTime = lastTime
        THEN info.growth_global
        ELSE BigAdd(info.growth_global,
                    FromNat(checkMulDivFloor(currentTime \div 1000 - lastTime + 15,
                                             info.emissions_per_second,
                                             pool.liquidity, 128)))

\* C4: a request that ran with no other request in flight, after an earlier
\* request for another pool had finished, used for every rewarder of its pool
\* the pool's own growth.
C4_OwnGrowthUsed ==
    \A r \in Callers :
        (req[r].solo /\ \A o \in Others(r) :
                            Finished(o) /\ req[o].poolId # req[r].poolId)
            => \A k \in 1..Len(req[r].usedGrowth) :
                  \A i \in 1..Len(req[r].pool.rewarder_infos) :
                      req[r].usedGrowth[k][i]
                          = OwnGrowth(ChainPool(req[r].poolId), req[r].currentTime, i)

RECURSIVE SlotTotal(_, _, _)
SlotTotal(owedList, j, k) ==
    IF k > Len(owedList) THEN ZERO
    ELSE BigAdd(IF j <= Len(owedList[k]) THEN owedList[k][j].amount_owed ELSE ZERO,
                SlotTotal(owedList, j, k + 1))

\* C9: a finished poolRewardersAmount completed without error and returned,
\* per slot, the sum of the owed amounts of the account's positions, a slot
\* without a rewarder counting 0.
C9_PoolTotals ==
    \A r \in Callers :
        (Finished(r) /\ req[r].kind = "pool")
            => /\ req[r].result.status = "ok"
               /\ Len(req[r].owedList) = Len(req[r].positions)
               /\ \A j \in 1..RewarderSlots :
                     req[r].result.value[j] = SlotTotal(req[r].owedList, j, 1)

----------------------------------------------------------------------------
(* Claims about the swap simulation (SwapSpec).                            *)

Returned == swap.pc = "done" /\ swap.error = "none"

\* The requested amount was fully satisfied
Satisfied ==
    IF swap.byAmountIn THEN swap.result.estimatedAmountIn = swap.amount
    ELSE swap.result.estimatedAmountOut = swap.amount

NotSatisfied ==
    IF swap.byAmountIn THEN swap.result.estimatedAmountIn < swap.amount
    ELSE swap.result.estimatedAmountOut < swap.amount

LimitReached ==
    swap.result.estimatedEndSqrtPrice = getDefaultSqrtPriceLimit(swap.a2b)

CapHit == swap.swapResult.crossTickNum >= CrossTickCap

\* C1: a call on well-formed input returns a result, never an error; its
\* isExceed is true exactly when the price limit was reached before the amount
\* was satisfied or the cross-tick cap was hit, and false exactly when the
\* amount was fully satisfied below the cap.
C1_IsExceedIffPartialFill ==
    (swap.pc = "done"
        /\ InputError(swap.a2b, swap.amount, PoolData(swap.currentPool),
                      swap.swapTicks) = "none")
        => /\ swap.error = "none"
           /\ swap.result # NoValue
           /\ swap.result.isExceed <=> ((LimitReached /\ NotSatisfied) \/ CapHit)
           /\ ~swap.result.isExceed <=> (Satisfied /\ ~CapHit)

C1_Witness ==
    /\ Returned
    /\ ~swap.byAmountIn
    /\ swap.result.isExceed
    /\ CapHit
    /\ ~LimitReached

\* C2: the simulation terminates within cap + 1 iterations of the loop (each
\* iteration but the last crosses a tick), and the number of crossings never
\* exceeds the cap, in every state and in every returned result, however many
\* ticks the array holds.
C2_TerminatesWithinCap ==
    /\ swap.crossTickNum <= CrossTickCap
    /\ swap.steps <= swap.crossTickNum + 1
    /\ (swap.pc = "loop" /\ swap.steps > swap.crossTickNum) => ~LoopContinues(swap)
    /\ Returned => swap.swapResult.crossTickNum <= CrossTickCap

C2_Witness ==
    /\ Returned
    /\ swap.swapResult.crossTickNum = CrossTickCap
    /\ Len(swap.swapTicks) > 2 * CrossTickCap

\* Sum of liquidityNet over the positions lo..hi of the array
RECURSIVE NetSum(_, _, _)
NetSum(ticks, lo, hi) ==
    IF lo > hi THEN 0
    ELSE IF lo = hi THEN ticks[lo].liquidityNet
    ELSE LET mid == (lo + hi) \div 2
         IN  NetSum(ticks, lo, mid) + NetSum(ticks, mid + 1, hi)

\* The input, fee included, that the pool absorbs on the way down to position
\* k of a descending array whose ticks below the starting price begin at
\* position first; position Len + 1 stands for MIN_SQRT_PRICE
IntervalCapacity(ticks, first, k, sqrtPrice, liquidity, feeRate) ==
    LET from  == IF k = first THEN sqrtPrice ELSE ticks[k - 1].sqrtPrice
        to    == IF k > Len(ticks) THEN MIN_SQRT_PRICE ELSE ticks[k].sqrtPrice
        maxIn == getDeltaA(to, from, liquidity - NetSum(ticks, first, k - 1), TRUE)
    IN  maxIn + mulDivCeil(maxIn, feeRate, FeeRateDenominator - feeRate)

RECURSIVE CapacitySum(_, _, _, _, _, _, _)
CapacitySum(ticks, first, lo, hi, sqrtPrice, liquidity, feeRate) ==
    IF lo > hi THEN 0
    ELSE IF lo = hi
    THEN IntervalCapacity(ticks, first, lo, sqrtPrice, liquidity, feeRate)
    ELSE LET mid == (lo + hi) \div 2
         IN  CapacitySum(ticks, first, lo, mid, sqrtPrice, liquidity, feeRate)
             + CapacitySum(ticks, first, mid + 1, hi, sqrtPrice, liquidity, feeRate)

\* The input, fee included, that the pool absorbs from its price down to
\* MIN_SQRT_PRICE over a descending array of ticks
CapacityDown(ticks, sqrtPrice, liquidity, feeRate) ==
    LET first == 1 + Cardinality({k \in 1..Len(ticks) : ticks[k].sqrtPrice >= sqrtPrice})
    IN  CapacitySum(ticks, first, first, Len(ticks) + 1, sqrtPrice, liquidity, feeRate)

\* An exact-input A-to-B call that asked for more than the pool absorbs
AsksBeyondMin ==
    /\ Returned
    /\ swap.a2b
    /\ swap.byAmountIn
    /\ swap.amount > CapacityDown(swap.swapTicks, swap.currentPool.current_sqrt_price,
                                  swap.currentPool.liquidity, swap.currentPool.fee_rate)

TicksBelowStart ==
    Cardinality({k \in 1..Len(swap.swapTicks) :
                    swap.swapTicks[k].sqrtPrice < swap.currentPool.current_sqrt_price})

\* Position, in the descending array, of the tick reached by the cap-th crossing
CapTickPos == Len(swap.swapTicks) - TicksBelowStart + CrossTickCap

PriceWithinBounds ==
    (swap.pc \in {"loop", "done"} /\ swap.error = "none")
        => /\ swap.currentSqrtPrice >= MIN_SQRT_PRICE
           /\ swap.currentSqrtPrice <= MAX_SQRT_PRICE

\* C10 as stated: an exact-input A-to-B call that asks for more than the pool
\* absorbs down to MIN_SQRT_PRICE ends exactly at MIN_SQRT_PRICE with isExceed
\* and amountIn < amount; the price stays within the bounds.
C10_EndsAtMinSqrtPrice ==
    /\ PriceWithinBounds
    /\ AsksBeyondMin
          => /\ swap.result.isExceed
             /\ swap.result.estimatedEndSqrtPrice = MIN_SQRT_PRICE
             /\ swap.result.estimatedAmountIn < swap.amount

\* C10: such a call has isExceed and amountIn < amount; it ends exactly at
\* MIN_SQRT_PRICE when fewer than the cap of initialized ticks lie below the
\* starting price, and at the cap-th crossed tick, above MIN_SQRT_PRICE,
\* otherwise; the price stays within the bounds in both directions.
C10_EndsAtMinBelowCap ==
    /\ PriceWithinBounds
    /\ AsksBeyondMin
          => /\ swap.result.isExceed
             /\ swap.result.estimatedAmountIn < swap.amount
             /\ TicksBelowStart < CrossTickCap
                   => swap.result.estimatedEndSqrtPrice = MIN_SQRT_PRICE
             /\ TicksBelowStart >= CrossTickCap
                   => /\ swap.swapResult.crossTickNum = CrossTickCap
                      /\ swap.result.estimatedEndSqrtPrice
                            = swap.swapTicks[CapTickPos].sqrtPrice
                      /\ swap.result.estimatedEndSqrtPrice > MIN_SQRT_PRICE

C10_Witness ==
    /\ AsksBeyondMin
    /\ TicksBelowStart = CrossTickCap - 1
    /\ swap.swapResult.crossTickNum = CrossTickCap - 1
    /\ swap.result.isExceed
    /\ swap.result.estimatedEndSqrtPrice = MIN_SQRT_PRICE

InSimulation == swap.pc \in {"loop", "done"} /\ swap.error = "none"

\* The fee of a step, from its input and from the amount that remained before it
StepFee(before, step) ==
    IF before.byAmountIn /\ step.covers
    THEN mulDivCeil(before.remainingAmount, before.feeRate, FeeRateDenominator)
    ELSE mulDivCeil(step.amountIn, before.feeRate, FeeRateDenominator - before.feeRate)

\* C11: in every state of the simulation and in its result the accumulated fee
\* does not exceed the accumulated input; the accumulated input is the sum of
\* the inputs the steps consumed (nothing before the first step, and each step
\* adds its input, fee included); the fee of a step is taken on the step's
\* input with the remaining amount as it was before the step reduced it.
C11_FeeConservation ==
    InSimulation
        => /\ swap.feeAmount <= swap.amountIn
           /\ swap.steps = 0 => swap.amountIn = 0 /\ swap.feeAmount = 0
           /\ swap.lastStep # NoValue
                 => LET before == swap.lastStep.before
                        step   == swap.lastStep.step
                    IN  /\ swap.amountIn = before.amountIn + step.amountIn + step.feeAmount
                        /\ swap.feeAmount = before.feeAmount + step.feeAmount
                        /\ step.feeAmount = StepFee(before, step)
                        /\ step.feeAmount <= step.amountIn + step.feeAmount
                        /\ swap.byAmountIn
                              => swap.remainingAmount
                                    = before.remainingAmount
                                          - (step.amountIn + step.feeAmount)
           /\ swap.pc = "done"
                 => /\ swap.result.estimatedAmountIn = swap.amountIn
                    /\ swap.result.estimatedFeeAmount = swap.feeAmount
                    /\ swap.result.estimatedFeeAmount <= swap.result.estimatedAmountIn

C11_Witness ==
    /\ Returned
    /\ swap.byAmountIn
    /\ swap.steps >= 3
    /\ swap.lastStep.step.covers
    /\ swap.lastStep.step.feeAmount > 0
    /\ swap.lastStep.before.feeAmount > 0

\* value is the floor of numerator / denominator
IsFloorOf(value, numerator, denominator) ==
    value * denominator <= numerator /\ numerator < (value + 1) * denominator

\* value is the ceiling of numerator / denominator
IsCeilingOf(value, numerator, denominator) ==
    (value - 1) * denominator < numerator /\ numerator <= value * denominator

\* The closed-form deltas over an interval, as numerator and denominator
ClosedFormA(sqrtPrice0, sqrtPrice1, liquidity) ==
    [numerator   |-> liquidity * PriceScale
                       * (Max(sqrtPrice0, sqrtPrice1) - Min(sqrtPrice0, sqrtPrice1)),
     denominator |-> sqrtPrice0 * sqrtPrice1]

ClosedFormB(sqrtPrice0, sqrtPrice1, liquidity) ==
    [numerator   |-> liquidity * (Max(sqrtPrice0, sqrtPrice1) - Min(sqrtPrice0, sqrtPrice1)),
     denominator |-> PriceScale]

\* The closed-form input and output of the last step, over the interval from
\* the price before the step to the price it landed on
LastStepInput ==
    LET before == swap.lastStep.before
        to     == swap.lastStep.step.nextSqrtPrice
    IN  IF swap.a2b
        THEN ClosedFormA(before.currentSqrtPrice, to, before.currentLiquidity)
        ELSE ClosedFormB(before.currentSqrtPrice, to, before.currentLiquidity)

LastStepOutput ==
    LET before == swap.lastStep.before
        to     == swap.lastStep.step.nextSqrtPrice
    IN  IF swap.a2b
        THEN ClosedFormB(before.currentSqrtPrice, to, before.currentLiquidity)
        ELSE ClosedFormA(before.currentSqrtPrice, to, before.currentLiquidity)

\* C12: in each step, over the interval the step covers, an output computed
\* from the input side is the floor of the closed-form value and an input
\* computed for the output side is its ceiling; a fixed amount (the input of an
\* exact-input landing, the output of an exact-output landing) is never above,
\* respectively below, what the closed form gives the trader.
C12_RoundingPolicy ==
    (InSimulation /\ swap.lastStep # NoValue)
        => LET step == swap.lastStep.step
               in   == LastStepInput
               out  == LastStepOutput
           IN  /\ (swap.byAmountIn \/ ~step.covers)
                     => IsFloorOf(step.amountOut, out.numerator, out.denominator)
               /\ (~swap.byAmountIn \/ ~step.covers)
                     => IsCeilingOf(step.amountIn, in.numerator, in.denominator)
               /\ step.amountOut * out.denominator <= out.numerator
               /\ step.amountIn * in.denominator >= in.numerator

\* A step whose closed-form input and output are both fractional
C12_Witness ==
    /\ InSimulation
    /\ swap.lastStep # NoValue
    /\ ~swap.lastStep.step.covers
    /\ swap.lastStep.step.amountOut > 0
    /\ LastStepInput.numerator % LastStepInput.denominator # 0
    /\ LastStepOutput.numerator % LastStepOutput.denominator # 0

\* A call whose amount and pool price computeSwap accepts
AmountAndPriceValid ==
    /\ swap.amount > 0
    /\ swap.currentPool.current_sqrt_price >= MIN_SQRT_PRICE
    /\ swap.currentPool.current_sqrt_price <= MAX_SQRT_PRICE

HasDuplicateIndex(ticks) ==
    \E j, k \in 1..Len(ticks) : j # k /\ ticks[j].index = ticks[k].index

Rejected(error) ==
    /\ swap.pc = "done"
    /\ swap.error = error
    /\ swap.result = NoValue
    /\ swap.swapResult = NoValue
    /\ swap.steps = 0

C14_InputsUnchanged ==
    swap.pc # "call" => swap.swapTicks = swap.givenTicks

----------------------------------------------------------------------------
\* Claims about swap transactions

SwapCalled == swap.pc # "idle"

\* fixSwapParams has called calculateRates for this request
ThroughFixSwapParams ==
    /\ gas.pc \in {"fixSwapParams", "done"}
    /\ gas.newResult # NoValue
    /\ gas.newResult.newTx # NoValue

\* C15: a call of calculateRates with amount 0 or less never enters the swap
\* loop and ends with InvalidAmount, without a result and without a step
\* computed; when the call was made by fixSwapParams, after the gas adjustment
\* lowered the amount, createSwapTransactionPayload ends with that error and
\* returns no transaction.
C15_NonPositiveAmountRejected ==
    (SwapCalled /\ swap.amount <= 0)
        => /\ swap.pc \in {"call", "done"}
           /\ swap.pc = "done" => Rejected("InvalidAmount")
           /\ (gas.pc = "done" /\ ThroughFixSwapParams)
                 => gas.error = "InvalidAmount" /\ gas.result = NoValue

C15_Witness ==
    /\ gas.pc = "done"
    /\ ThroughFixSwapParams
    /\ gas.givenParams.amount > 0
    /\ gas.params.amount = 0
    /\ Rejected("InvalidAmount")
    /\ gas.error = "InvalidAmount"

\* The request was made with gasEstimateArg and takes SUI in
EstimateAsked ==
    /\ gas.gasEstimateArg # NoValue
    /\ InputCoinType(gas.givenParams) = SUI

\* No step of the gas estimation has run for the request
NoGasEstimation ==
    /\ ~gas.adjustCalled
    /\ ~gas.estimated
    /\ gas.newResult = NoValue
    /\ swap = SwapIdle
    /\ gas.pc \in {"call", "getOwnerCoinAssets", "done"}

\* C16: adjustTransactionForGas and the gas estimate run only for a request
\* made with gasEstimateArg whose input coin (coin A when a2b, coin B
\* otherwise) is SUI; any other request runs no step of the estimation, keeps
\* its params as given, and returns the transaction buildSwapTransaction builds
\* from them.
C16_EstimateOnlyForSuiInput ==
    (gas.pc # "idle" /\ ~EstimateAsked)
        => /\ NoGasEstimation
           /\ gas.params = gas.givenParams
           /\ (gas.pc = "done" /\ gas.error = "none")
                 => /\ gas.result = buildSwapTransaction(gas.givenParams, gas.allCoinAsset).tx
                    /\ gas.result.moveCall.amount = gas.givenParams.amount
                    /\ gas.result.moveCall.amount_limit = gas.givenParams.amount_limit
                    /\ gas.result.gasBudget = NoValue

C16_Witness ==
    /\ gas.pc = "done"
    /\ gas.error = "none"
    /\ gas.gasEstimateArg # NoValue
    /\ SUI \in {gas.givenParams.coinTypeA, gas.givenParams.coinTypeB}
    /\ InputCoinType(gas.givenParams) # SUI
    /\ gas.result # NoValue

\* adjustTransactionForGas has returned for the request
Adjusted == gas.pc \in {"adjusted", "fixSwapParams", "done"} /\ gas.newResult # NoValue

AdjustAmount == InputAmount(gas.givenParams)

AdjustTotal ==
    calculateTotalBalance(getCoinAssets(InputCoinType(gas.givenParams), gas.allCoinAsset))

BalanceLeft == AdjustTotal - AdjustAmount

ReturnsUnchanged ==
    /\ gas.newResult.fixAmount = AdjustAmount
    /\ gas.newResult.fixCoinInput = NoValue
    /\ gas.newResult.newTx = NoValue

ReturnsLowered ==
    /\ gas.newResult.fixAmount = AdjustAmount - (gas.estimateGas + 500)
    /\ gas.newResult.fixCoinInput # NoValue
    /\ gas.newResult.newTx # NoValue
    /\ gas.newResult.newTx.gasBudget = gas.estimateGas + 500

FixAmountWithinBalance ==
    /\ gas.newResult.fixAmount >= 0
    /\ gas.newResult.fixAmount <= AdjustAmount
    /\ gas.newResult.newTx # NoValue
          => gas.newResult.fixAmount + gas.newResult.newTx.gasBudget <= AdjustTotal

\* C20 as stated: the amount is returned unchanged whenever the balance left
\* after it exceeds 1000000000 or is at least the estimated gas, and is
\* lowered by the estimate plus 500 otherwise; fixAmount is within 0 and the
\* amount, and with the gas budget within the balance.
C20_UnchangedWhenGasCovered ==
    Adjusted
        => /\ IF BalanceLeft > GasReserve \/ (gas.estimated /\ BalanceLeft >= gas.estimateGas)
              THEN ReturnsUnchanged
              ELSE ReturnsLowered
           /\ FixAmountWithinBalance

\* C20: the amount is returned unchanged, with no replacement transaction,
\* whenever the balance left after it exceeds 1000000000, or the coins not
\* selected for the amount cover the estimated gas, or the balance left is at
\* least the estimate plus 500; otherwise it is lowered by the estimate plus
\* 500 and comes with a new transaction of that gas budget.  fixAmount is
\* within 0 and the amount, fixAmount plus the budget is the amount asked and
\* within the balance, and 'gas Insufficient balance' is thrown only when the
\* lowered amount would be negative.
C20_UnchangedWhenReserveCovered ==
    /\ Adjusted
          => /\ IF BalanceLeft > GasReserve
                THEN ~gas.estimated /\ ReturnsUnchanged
                ELSE /\ gas.estimated
                     /\ IF gas.gasCoins # {} \/ BalanceLeft >= gas.estimateGas + 500
                        THEN ReturnsUnchanged
                        ELSE ReturnsLowered
             /\ FixAmountWithinBalance
             /\ gas.newResult.newTx # NoValue
                   => gas.newResult.fixAmount + gas.newResult.newTx.gasBudget = AdjustAmount
    /\ (gas.pc = "done" /\ gas.error = "gas Insufficient balance")
          => /\ gas.gasCoins = {}
             /\ BalanceLeft < gas.estimateGas + 500
             /\ AdjustAmount - (gas.estimateGas + 500) < 0

C20_Witness ==
    /\ Adjusted
    /\ gas.estimated
    /\ BalanceLeft >= gas.estimateGas
    /\ ReturnsLowered
    /\ gas.newResult.fixAmount > 0

----------------------------------------------------------------------------
\* Claims about routes

\* preRouterSwapA2B2C has returned a candidate
Selected ==
    /\ router.pc \in {"preSwapResult", "done"}
    /\ router.preSwapResult # NoValue

NotExceeded == { i \in 1..Len(router.valueData) : ~router.valueData[i].is_exceed }

RequiredInput(i) ==
    IF router.params[i].stepNums = 1
    THEN router.valueData[i].amount_in + router.valueData[i].fee_amount
    ELSE router.valueData[i].amount_in

BetterCandidate(i, j) ==
    IF router.byAmountIn
    THEN router.valueData[i].amount_out > router.valueData[j].amount_out
    ELSE RequiredInput(i) < RequiredInput(j)

\* C18: whenever a candidate is not exceeded, the candidate returned is not
\* exceeded, the returned isExceed is false, no candidate that is not exceeded
\* is better (larger amount_out for exact-input, smaller required input for
\* exact-output), and every such candidate of a lower index is worse.
C18_BestNotExceeded ==
    (Selected /\ NotExceeded # {})
        => LET best == router.preSwapResult.index + 1
           IN  /\ best \in NotExceeded
               /\ ~router.preSwapResult.isExceed
               /\ \A j \in NotExceeded : ~BetterCandidate(j, best)
               /\ \A j \in NotExceeded : j < best => BetterCandidate(best, j)

\* price() has built its candidates
CandidatesBuilt == router.pc \in {"preRouterSwapA2B2C", "preSwapResult", "done"}

\* C19: every candidate price() builds starts at the requested base coin and
\* ends at the requested quote coin: coinTypeB of a one-pool candidate,
\* coinTypeC of a two-pool candidate, whose coinTypeB is a third coin.
C19_CandidatesConnect ==
    CandidatesBuilt
        => \A k \in 1..Len(router.preRouterSwapParams) :
              LET param == router.preRouterSwapParams[k]
              IN  /\ param.coinTypeA = router.base
                  /\ IF param.stepNums = 1
                     THEN param.coinTypeB = router.quote
                     ELSE /\ param.coinTypeC = router.quote
                          /\ param.coinTypeB \notin {router.base, router.quote}

----------------------------------------------------------------------------
\* Claims about tick crossing

\* The initialized tick ahead of the price the last step started from (0: none)
TickAhead ==
    NextTickPos(swap.lastStep.before.swapTicks, swap.lastStep.before.currentSqrtPrice,
                swap.a2b)

\* The last step used up its interval and ended on the tick ahead
CrossedTick ==
    /\ ~swap.lastStep.step.covers
    /\ TickAhead # 0
    /\ swap.lastStep.step.nextSqrtPrice = swap.lastStep.before.swapTicks[TickAhead].sqrtPrice

\* C24: a step that uses up its interval and ends on a tick changes
\* currentLiquidity by the tick's liquidityNet, added for B-to-A and subtracted
\* for A-to-B, and adds one to the count of crossings; a step that lands
\* inside its interval leaves both as they were.
C24_CrossingAppliesLiquidityNet ==
    (InSimulation /\ swap.steps > 0)
        => LET before == swap.lastStep.before
           IN  /\ CrossedTick
                     => /\ swap.currentLiquidity =
                              IF swap.a2b
                              THEN before.currentLiquidity
                                     - before.swapTicks[TickAhead].liquidityNet
                              ELSE before.currentLiquidity
                                     + before.swapTicks[TickAhead].liquidityNet
                        /\ swap.crossTickNum = before.crossTickNum + 1
               /\ swap.lastStep.step.covers
                     => /\ swap.currentLiquidity = before.currentLiquidity
                        /\ swap.crossTickNum = before.crossTickNum

C24_Witness ==
    /\ InSimulation
    /\ swap.steps > 0
    /\ CrossedTick
    /\ swap.a2b
    /\ swap.lastStep.before.swapTicks[TickAhead].liquidityNet # 0
    /\ swap.currentLiquidity # swap.lastStep.before.currentLiquidity

----------------------------------------------------------------------------
\* Claims about path providers

CanonicalOrder(link) ==
    IF SUI \in {link.base, link.quote}
    THEN link.quote = SUI
    ELSE localeCompare(link.base, link.quote) >= 0

\* C26: every link of a provider addPathProvider has taken in has SUI as its
\* quote when one of its coins is SUI, and otherwise a base that does not sort
\* before its quote; it holds the two coins and the addressMap it was given,
\* and ordering the provider once more changes nothing.
C26_PathLinksCanonical ==
    router.pc # "constructed"
        => \A p \in 1..Len(router.pathProviders) :
              LET provider == router.pathProviders[p]
                  given    == router.givenPaths[p]
              IN  /\ Len(provider) = Len(given)
                  /\ \A k \in 1..Len(provider) :
                        /\ CanonicalOrder(provider[k])
                        /\ {provider[k].base, provider[k].quote}
                              = {given[k].base, given[k].quote}
                        /\ provider[k].addressMap = given[k].addressMap
                  /\ [k \in 1..Len(provider) |-> OrderPathLink(provider[k])] = provider

C26_Witness ==
    /\ router.pc = "loaded"
    /\ \E k \in 1..Len(router.givenPaths[1]) :
          /\ router.pathProviders[1][k].base = router.givenPaths[1][k].quote
          /\ router.pathProviders[1][k].quote = router.givenPaths[1][k].base
          /\ router.pathProviders[1][k] # router.givenPaths[1][k]
    /\ \E k \in 1..Len(router.givenPaths[1]) :
          /\ router.givenPaths[1][k].base = ETH
          /\ router.givenPaths[1][k].quote = SUI
          /\ router.pathProviders[1][k] = router.givenPaths[1][k]

----------------------------------------------------------------------------
\* Claims about the candidates submitted

\* The pools loaded for the link between two coins, in either order
PoolsBetween(a, b) ==
    LET pools(key) == IF key \in DOMAIN router.poolAddressMap
                      THEN { router.poolAddressMap[key][k] :
                               k \in 1..Len(router.poolAddressMap[key]) }
                      ELSE {}
    IN  pools(<<a, b>>) \cup pools(<<b, a>>)

\* The candidate follows the first pools of a graph path of at most three coins
FollowsShortPath(param) ==
    \E n \in 1..Len(router.allPaths) :
        LET path == router.allPaths[n]
        IN  /\ Len(path) <= 3
            /\ path[1] = param.coinTypeA
            /\ path[2] = param.coinTypeB
            /\ param.poolAB \in PoolsBetween(path[1], path[2])
            /\ param.stepNums = 2
                  => /\ Len(path) = 3
                     /\ path[3] = param.coinTypeC
                     /\ param.poolBC \in PoolsBetween(path[2], path[3])

\* C25: every candidate submitted has stepNums 1 or 2, with poolBC, b2c and
\* coinTypeC defined exactly when stepNums is 2, and follows a graph path of
\* at most three coins; the candidates submitted are the first 64 built, or
\* all of them when fewer were built; the index returned is the index of one
\* of them, and the result of price() names the coins of that candidate.
C25_SubmittedCandidates ==
    CandidatesBuilt
        => /\ \A k \in 1..Len(router.params) :
                 LET param == router.params[k]
                 IN  /\ param.stepNums \in {1, 2}
                     /\ (param.stepNums = 2) <=> (param.poolBC # Undefined)
                     /\ (param.stepNums = 2) <=> (param.b2c # NoValue)
                     /\ (param.stepNums = 2) <=> (param.coinTypeC # Undefined)
                     /\ FollowsShortPath(param)
           /\ Len(router.params) <= 64
           /\ Len(router.params) = Min(64, Len(router.preRouterSwapParams))
           /\ router.params = SubSeq(router.preRouterSwapParams, 1, Len(router.params))
           /\ Selected
                 => /\ router.preSwapResult.index \in 0..(Len(router.params) - 1)
                    /\ router.pc = "done"
                          => LET chosen == router.params[router.preSwapResult.index + 1]
                             IN  /\ router.result.coinTypeA = chosen.coinTypeA
                                 /\ router.result.coinTypeB = chosen.coinTypeB
                                 /\ router.result.coinTypeC = chosen.coinTypeC

C25_Witness ==
    /\ router.pc = "done"
    /\ Selected
    /\ Len(router.preRouterSwapParams) > 64
    /\ Len(router.params) = 64
    /\ router.preSwapResult.index = 63
    /\ router.params[64].stepNums = 2


\* ---------------------------------------------------------------------------
\* SwapModule.preSwapWithMultiPool: one simulated swap per pool, then the
\* choice among the result events
\* ---------------------------------------------------------------------------

\* Inputs: at most this many pools and result events
MaxPools == 3

\* Inputs: the data of a CalculatedSwapResultEvent. For exact-output the
\* contract reports the requested amount as amount_out.
MultiPoolEventData(byAmountIn) ==
    IF byAmountIn
    THEN { [is_exceed |-> e, amount_in |-> PriceAmount, amount_out |-> out, fee_amount |-> 2] :
             e \in BOOLEAN, out \in {0, 7, 9} }
    ELSE { [is_exceed |-> e, amount_in |-> in, amount_out |-> PriceAmount, fee_amount |-> 2] :
             e \in BOOLEAN, in \in {5, 7, 9} }

MultiPoolParams ==
    { [poolAddresses |-> Pools("p", n), a2b |-> a2b, byAmountIn |-> byAmountIn,
       amount |-> PriceAmount, coinTypeA |-> SUI, coinTypeB |-> USDC] :
        n \in 0..MaxPools, a2b \in BOOLEAN, byAmountIn \in BOOLEAN }

\* The comparison of the loop of preSwapWithMultiPool
BetterPool(byAmountIn, amount, tempMaxAmount) ==
    IF byAmountIn THEN amount > tempMaxAmount ELSE amount < tempMaxAmount

RECURSIVE SelectPoolFrom(_, _, _, _)
\* The loop of preSwapWithMultiPool from event i on; temp holds tempIndex
\* (counted from 0) and tempMaxAmount
SelectPoolFrom(byAmountIn, valueData, i, temp) ==
    IF i > Len(valueData) THEN temp
    ELSE LET amount == valueData[i].amount_out
             next   == IF ~valueData[i].is_exceed /\ BetterPool(byAmountIn, amount, temp.tempMaxAmount)
                       THEN [tempIndex |-> i - 1, tempMaxAmount |-> amount]
                       ELSE temp
         IN  IF next = temp THEN SelectPoolFrom(byAmountIn, valueData, i + 1, temp)
             ELSE SelectPoolFrom(byAmountIn, valueData, i + 1, next)

transformSwapWithMultiPoolData(params, data) ==
    [poolAddress |-> params.poolAddress,
     estimatedAmountIn |-> data.amount_in + data.fee_amount,
     estimatedAmountOut |-> data.amount_out,
     estimatedFeeAmount |-> data.fee_amount,
     isExceed |-> data.is_exceed,
     amount |-> params.amount,
     aToB |-> params.a2b,
     byAmountIn |-> params.byAmountIn]

\* preSwapWithMultiPool once the events are there: what it returns (pc
\* "returned", result NoValue for null) or that it throws (pc "thrown")
preSwapWithMultiPool(params, valueData) ==
    IF Len(valueData) = 0
    THEN [pc |-> "returned", result |-> NoValue, tempIndex |-> 0]
    ELSE IF Len(valueData) # Len(params.poolAddresses)
    THEN [pc |-> "thrown", result |-> NoValue, tempIndex |-> 0]
    ELSE LET temp == SelectPoolFrom(params.byAmountIn, valueData, 1,
                         [tempIndex |-> 0,
                          tempMaxAmount |-> IF params.byAmountIn THEN 0 ELSE U64_MAX])
         IN  [pc |-> "returned",
              result |-> transformSwapWithMultiPoolData(
                             [poolAddress |-> params.poolAddresses[temp.tempIndex + 1],
                              a2b |-> params.a2b, byAmountIn |-> params.byAmountIn,
                              amount |-> params.amount],
                             valueData[temp.tempIndex + 1]),
              tempIndex |-> temp.tempIndex]

MultiPoolInit ==
    /\ swap = SwapIdle
    /\ accIn = NoValue
    /\ accOut = <<>>
    /\ growthGlobal = RewardIdle
    /\ req = <<>>
    /\ gas = NoValue
    /\ router = NoValue

\* preSwapWithMultiPool up to the simulation: one calculate_swap_result call
\* per pool address
PreSwapWithMultiPool ==
    /\ swap.pc = "idle"
    /\ \E params \in MultiPoolParams :
         swap' = [pc |-> "devInspect", params |-> params,
                  tx |-> [k \in 1..Len(params.poolAddresses) |->
                            <<params.poolAddresses[k], params.a2b, params.byAmountIn, params.amount>>]]
    /\ UNCHANGED <<accIn, accOut, growthGlobal, req, gas, router>>

\* The events of the simulation arrive: the filter, the two checks, the loop
\* and the returned data
PreSwapWithMultiPoolReturn ==
    /\ swap.pc = "devInspect"
    /\ \E n \in 0..MaxPools : \E valueData \in [1..n -> MultiPoolEventData(swap.params.byAmountIn)] :
         LET outcome == preSwapWithMultiPool(swap.params, valueData)
         IN  swap' = [pc |-> outcome.pc, params |-> swap.params, valueData |-> valueData,
                      result |-> outcome.result, tempIndex |-> outcome.tempIndex]
    /\ UNCHANGED <<accIn, accOut, growthGlobal, req, gas, router>>

MultiPoolNext == PreSwapWithMultiPool \/ PreSwapWithMultiPoolReturn

MultiPoolSpec == MultiPoolInit /\ [][MultiPoolNext]_vars

\* ---------------------------------------------------------------------------
\* C23
\* ---------------------------------------------------------------------------

MultiPoolReturned == swap.pc \in {"returned", "thrown"}

PoolsNotExceeded == { i \in 1..Len(swap.valueData) : ~swap.valueData[i].is_exceed }

\* What pool i asks of the caller, as preSwapWithMultiPool reports it
PoolRequiredInput(i) == swap.valueData[i].amount_in + swap.valueData[i].fee_amount

BetterPoolOf(i, j) ==
    IF swap.params.byAmountIn
    THEN swap.valueData[i].amount_out > swap.valueData[j].amount_out
    ELSE PoolRequiredInput(i) < PoolRequiredInput(j)

\* C23: preSwapWithMultiPool returns null when there are no result events,
\* throws when their number differs from the number of pools, and otherwise,
\* when some pool is not flagged is_exceed, returns a pool that is not flagged
\* and that no other such pool beats: largest amount_out for exact-input,
\* smallest required input for exact-output.
C23_BestPoolReturned ==
    MultiPoolReturned
        => IF Len(swap.valueData) = 0 THEN swap.pc = "returned" /\ swap.result = NoValue
           ELSE IF Len(swap.valueData) # Len(swap.params.poolAddresses) THEN swap.pc = "thrown"
           ELSE /\ swap.pc = "returned"
                /\ PoolsNotExceeded # {}
                     => /\ (swap.tempIndex + 1) \in PoolsNotExceeded
                        /\ swap.result.poolAddress = swap.params.poolAddresses[swap.tempIndex + 1]
                        /\ \A j \in PoolsNotExceeded : ~BetterPoolOf(j, swap.tempIndex + 1)


\* ---------------------------------------------------------------------------
\* RouterModule.deepbookPreswap: a swap simulated against one side of the
\* order book
\* ---------------------------------------------------------------------------

\* FLOAT_SCALING_U128 and the factor of line 331, 10^9 in the source; 10^3
\* here, so that the products of the code stay within the integers of TLC
FLOAT_SCALING_U128 == 1000

\* The lot of line 401, a tenth of the scaling factor
BaseLot == FLOAT_SCALING_U128 \div 10

unsafe_mul_round(x, y) ==
    [is_round_down |-> ((x * y) % FLOAT_SCALING_U128) # 0,
     value |-> (x * y) \div FLOAT_SCALING_U128]

unsafe_div_round(x, y) ==
    [is_round_down |-> ((x * FLOAT_SCALING_U128) % y) # 0,
     value |-> (x * FLOAT_SCALING_U128) \div y]

unsafe_div(x, y) == unsafe_div_round(x, y).value

unsafe_mul(x, y) == unsafe_mul_round(x, y).value

\* let [is_round_down, fee] = unsafe_mul_round(amount, taker_fee_rate);
\* if (is_round_down) fee = fee.addn(1)
TakerFee(amount, taker_fee_rate) ==
    LET rounded == unsafe_mul_round(amount, taker_fee_rate)
    IN  IF rounded.is_round_down THEN rounded.value + 1 ELSE rounded.value

\* maker_quote_quantity of a bid
MakerQuoteQuantity(bid, taker_fee_rate) ==
    bid.quantity * bid.price + TakerFee(bid.quantity * bid.price, taker_fee_rate)

RECURSIVE AskLoop(_, _, _, _)
\* for (const ask of asks) from ask i on; st holds amount_in, amount_out,
\* target_sqrt_price (as the price whose root it is, 0 for ZERO) and whether
\* the loop was left by break
AskLoop(asks, taker_fee_rate, i, st) ==
    IF i > Len(asks) \/ st.broke THEN st
    ELSE LET ask == asks[i]
         IN  IF st.amount_in > ask.quantity
             THEN LET filled_quote_amount == ask.quantity * ask.price
                  IN  AskLoop(asks, taker_fee_rate, i + 1,
                          [st EXCEPT !.amount_in = @ - ask.quantity,
                                     !.amount_out = @ + filled_quote_amount
                                                      - TakerFee(filled_quote_amount, taker_fee_rate)])
             ELSE LET filled_quote_amount == st.amount_in * ask.price
                  IN  [st EXCEPT !.amount_out = @ + filled_quote_amount
                                                  - TakerFee(filled_quote_amount, taker_fee_rate),
                                 !.target_sqrt_price = ask.price,
                                 !.broke = TRUE]

RECURSIVE BidLoop(_, _, _, _)
\* for (const bid of bids) from bid i on
BidLoop(bids, taker_fee_rate, i, st) ==
    IF i > Len(bids) \/ st.broke THEN st
    ELSE LET bid == bids[i]
             maker_quote_quantity == MakerQuoteQuantity(bid, taker_fee_rate)
         IN  IF st.amount_in > maker_quote_quantity
             THEN BidLoop(bids, taker_fee_rate, i + 1,
                      [st EXCEPT !.amount_out = @ + bid.quantity,
                                 !.amount_in = @ - maker_quote_quantity])
             ELSE LET without_fee == unsafe_div(st.amount_in, FLOAT_SCALING_U128 + taker_fee_rate)
                      filled_base_lot == unsafe_div(without_fee, bid.price) \div BaseLot
                      filled_base_quantity == filled_base_lot * BaseLot
                      filled_quote_quantity_without_fee == unsafe_mul(filled_base_quantity, bid.price)
                      filled_quote_quantity ==
                          filled_quote_quantity_without_fee
                            + TakerFee(filled_quote_quantity_without_fee, taker_fee_rate)
                  IN  [st EXCEPT !.amount_out = @ + filled_base_quantity,
                                 !.amount_in = @ - filled_quote_quantity,
                                 !.target_sqrt_price = bid.price,
                                 !.broke = TRUE]

\* is_exceed once the loop is over: lines 339-341 and 376-378; the checks of
\* lines 366-369 and 416-419 are commented out
BookExceeds(orders, st) == Len(orders) = 0

\* deepbookPreswap once the book side is there. amount and estimatedAmountOut
\* are in units of 1 / FLOAT_SCALING_U128; the prices stand for their roots.
deepbookPreswap(pool, is_bid, amount_in, taker_fee_rate, orders) ==
    LET start == [amount_in |-> amount_in * FLOAT_SCALING_U128, amount_out |-> 0,
                  target_sqrt_price |-> 0, broke |-> FALSE]
        st    == IF Len(orders) = 0 THEN start
                 ELSE IF is_bid THEN BidLoop(orders, taker_fee_rate, 1, start)
                 ELSE AskLoop(orders, taker_fee_rate, 1, start)
    IN  [poolAddress |-> pool,
         currentSqrtPrice |-> IF ~is_bid /\ Len(orders) > 0 THEN orders[1].price ELSE 0,
         estimatedAmountIn |-> amount_in,
         estimatedAmountOut |-> st.amount_out,
         estimatedEndSqrtPrice |-> st.target_sqrt_price,
         estimatedFeeAmount |-> 0,
         isExceed |-> BookExceeds(orders, st),
         amount |-> st.amount_in,
         aToB |-> is_bid,
         byAmountIn |-> TRUE]

\* Inputs: the levels of a book side
Orders == { [price |-> price, quantity |-> quantity] :
              price \in {2, 1000}, quantity \in {1, 500, 2000} }

\* Inputs: at most this many levels on a side
MaxLevels == 2

\* Inputs: what getDeepbookPoolsAsks / getDeepbookPoolsBids resolve to, null
\* (NoValue) when the simulation has no BookStatus event
Books ==
    { [null |-> TRUE, orders |-> <<>>] }
      \cup { [null |-> FALSE, orders |-> orders] :
                orders \in UNION { [1..n -> Orders] : n \in 0..MaxLevels } }

DeepbookAmounts == {1, 2, 3}

TakerFeeRates == {0, 5}

DeepbookIdle == [pc |-> "idle"]

DeepbookInit ==
    /\ router = DeepbookIdle
    /\ swap = NoValue
    /\ accIn = NoValue
    /\ accOut = <<>>
    /\ growthGlobal = RewardIdle
    /\ req = <<>>
    /\ gas = NoValue

\* deepbookPreswap up to the request for the book side
DeepbookPreswap ==
    /\ router.pc = "idle"
    /\ \E is_bid \in BOOLEAN, amount_in \in DeepbookAmounts, taker_fee_rate \in TakerFeeRates :
         router' = [pc |-> "getDeepbookPools", pool |-> "p1", is_bid |-> is_bid,
                    amount_in |-> amount_in, taker_fee_rate |-> taker_fee_rate]
    /\ UNCHANGED <<accIn, accOut, growthGlobal, req, swap, gas>>

\* The book side arrives: the loop and the returned data; reading the length
\* of null throws
DeepbookPreswapReturn ==
    /\ router.pc = "getDeepbookPools"
    /\ \E book \in Books :
         router' = IF book.null
                   THEN [pc |-> "thrown", is_bid |-> router.is_bid, amount_in |-> router.amount_in,
                         taker_fee_rate |-> router.taker_fee_rate, orders |-> <<>>,
                         result |-> NoValue]
                   ELSE [pc |-> "returned", is_bid |-> router.is_bid, amount_in |-> router.amount_in,
                         taker_fee_rate |-> router.taker_fee_rate, orders |-> book.orders,
                         result |-> deepbookPreswap(router.pool, router.is_bid, router.amount_in,
                                                    router.taker_fee_rate, book.orders)]
    /\ UNCHANGED <<accIn, accOut, growthGlobal, req, swap, gas>>

DeepbookNext == DeepbookPreswap \/ DeepbookPreswapReturn

DeepbookSpec == DeepbookInit /\ [][DeepbookNext]_vars

\* ---------------------------------------------------------------------------
\* C22
\* ---------------------------------------------------------------------------

DeepbookReturned == router.pc = "returned"

RECURSIVE AbsorbedBy(_, _)
\* What the first n levels of the returned call's book side absorb: base
\* quantity on the ask side, quote with fee on the bid side
AbsorbedBy(orders, n) ==
    IF n = 0 THEN 0
    ELSE AbsorbedBy(orders, n - 1)
           + (IF router.is_bid THEN MakerQuoteQuantity(orders[n], router.taker_fee_rate)
              ELSE orders[n].quantity)

\* Input remains after every level of the side has been consumed
InputRemains ==
    router.amount_in * FLOAT_SCALING_U128 > AbsorbedBy(router.orders, Len(router.orders))

\* C22: deepbookPreswap reports isExceed = true exactly when input remains
\* after every price level of the side has been consumed (an empty side
\* included).
C22_IsExceedWhenInputRemains ==
    DeepbookReturned => (router.result.isExceed <=> InputRemains)


\* ---------------------------------------------------------------------------
\* TransactionUtil.buildAddLiquidityFixTokenForGas
\* ---------------------------------------------------------------------------

\* buildAddLiquidityFixTokenArgs: the move call it appends to tx (pool,
\* ticks and clock left out)
buildAddLiquidityFixTokenArgs(tx, params, primaryCoinAInputs, primaryCoinBInputs) ==
    LET inputA == IF primaryCoinAInputs # NoValue
                  THEN << [coinInput |-> primaryCoinAInputs, coinAmount |-> params.amount_a] >>
                  ELSE <<>>
        inputB == IF primaryCoinBInputs # NoValue
                  THEN << [coinInput |-> primaryCoinBInputs, coinAmount |-> params.amount_b] >>
                  ELSE <<>>
        primaryCoinInputs == inputA \o inputB
        isWithAll == Len(primaryCoinInputs) = 2
        functionName ==
            IF isWithAll
            THEN IF params.is_open THEN "open_position_with_liquidity_with_all"
                 ELSE "add_liquidity_fix_coin_with_all"
            ELSE IF params.is_open
                 THEN IF primaryCoinAInputs # NoValue THEN "open_position_with_liquidity_only_a"
                      ELSE "open_position_with_liquidity_only_b"
                 ELSE IF primaryCoinAInputs # NoValue THEN "add_liquidity_fix_coin_only_a"
                      ELSE "add_liquidity_fix_coin_only_b"
    IN  [tx EXCEPT !.moveCall =
            [function |-> functionName,
             typeArguments |-> <<params.coinTypeA, params.coinTypeB>>,
             primaryCoinInputs |-> primaryCoinInputs,
             fix_amount_a |-> params.fix_amount_a,
             collectRewarder |-> ~params.is_open]]

\* buildAddLiquidityFixToken
buildAddLiquidityFixToken(senderAddress, allCoinAsset, params) ==
    LET inputA == buildCoinInputForAmount(allCoinAsset, params.amount_a, params.coinTypeA)
        inputB == buildCoinInputForAmount(allCoinAsset, params.amount_b, params.coinTypeB)
    IN  IF senderAddress = ""
        THEN [error |-> "this config sdk senderAddress is empty", tx |-> NoValue]
        ELSE IF inputA.error # "none" THEN [error |-> inputA.error, tx |-> NoValue]
        ELSE IF inputB.error # "none" THEN [error |-> inputB.error, tx |-> NoValue]
        ELSE [error |-> "none",
              tx |-> buildAddLiquidityFixTokenArgs(TransactionBlock("buildAddLiquidityFixToken"),
                         params, inputA.transactionArgument, inputB.transactionArgument)]

\* fixAddLiquidityFixTokenParams; tokenMax is the figure
\* estLiquidityAndcoinAmountFromOneAmounts gives for the coin that is not fixed
fixAddLiquidityFixTokenParams(params, tokenMax) ==
    IF params.fix_amount_a THEN [params EXCEPT !.amount_b = tokenMax]
    ELSE [params EXCEPT !.amount_a = tokenMax]

\* buildAddLiquidityFixTokenForGas after the adjustment (lines 158-191): the
\* params as they are left and the transaction returned
AfterAdjustment(tx, allCoins, params, newResult, isAdjustCoinA, tokenMax) ==
    IF newResult.fixCoinInput # NoValue /\ newResult.newTx # NoValue
    THEN IF isAdjustCoinA
         THEN LET amended == [params EXCEPT !.amount_a = newResult.fixAmount]
                  inputB  == buildCoinInputForAmount(allCoins, amended.amount_b, amended.coinTypeB)
              IN  IF inputB.error # "none"
                  THEN [error |-> inputB.error, params |-> amended, tx |-> NoValue]
                  ELSE [error |-> "none", params |-> amended, tx |-> tx]
         ELSE LET amended == [params EXCEPT !.amount_b = newResult.fixAmount]
                  inputA  == buildCoinInputForAmount(allCoins, amended.amount_a, amended.coinTypeA)
                  fixed   == fixAddLiquidityFixTokenParams(amended, tokenMax)
              IN  IF inputA.error # "none"
                  THEN [error |-> inputA.error, params |-> amended, tx |-> NoValue]
                  ELSE [error |-> "none", params |-> fixed,
                        tx |-> buildAddLiquidityFixTokenArgs(newResult.newTx, fixed,
                                   inputA.transactionArgument, newResult.fixCoinInput)]
    ELSE [error |-> "none", params |-> params, tx |-> tx]

\* Inputs
LiquidityAmounts == {0, 800, 4800}

TokenMaxEstimates == {600, 5200}

MkAddLiquidityParams(pair, amount_a, amount_b, fix_amount_a, is_open) ==
    [coinTypeA |-> pair[1], coinTypeB |-> pair[2], amount_a |-> amount_a,
     amount_b |-> amount_b, fix_amount_a |-> fix_amount_a, is_open |-> is_open]

\* One call of buildAddLiquidityFixTokenForGas, before the call
LiquidityCall(senderAddress, allCoins, params) ==
    [pc |-> "call", senderAddress |-> senderAddress, allCoins |-> allCoins,
     params |-> params, tx |-> NoValue, newResult |-> NoValue, error |-> "none",
     result |-> NoValue,
     \* history, not program state
     givenParams |-> params]

LiquidityInit ==
    /\ gas \in { LiquidityCall(senderAddress, allCoins,
                               MkAddLiquidityParams(pair, amount_a, amount_b, fix_amount_a, is_open)) :
                   senderAddress \in {"", "0xa"}, allCoins \in Wallets, pair \in CoinPairs,
                   amount_a \in LiquidityAmounts, amount_b \in LiquidityAmounts,
                   fix_amount_a \in BOOLEAN, is_open \in BOOLEAN }
    /\ swap = SwapIdle
    /\ accIn = NoValue
    /\ accOut = <<>>
    /\ growthGlobal = RewardIdle
    /\ req = <<>>
    /\ router = NoValue

\* The coin buildAddLiquidityFixTokenForGas adjusts, and its amount
AdjustedCoinType(params) ==
    IF findAdjustCoin(params).isAdjustCoinA THEN params.coinTypeA ELSE params.coinTypeB

suiAmount(params) ==
    IF findAdjustCoin(params).isAdjustCoinA THEN params.amount_a ELSE params.amount_b

\* buildAddLiquidityFixTokenForGas up to its await of adjustTransactionForGas
BuildAddLiquidityFixToken ==
    /\ gas.pc = "call"
    /\ LET built == buildAddLiquidityFixToken(gas.senderAddress, gas.allCoins, gas.params)
       IN  IF built.error # "none"
           THEN GasThrow(built.error)
           ELSE gas' = [gas EXCEPT !.pc = "adjustTransactionForGas", !.tx = built.tx]
    /\ UNCHANGED <<accIn, accOut, growthGlobal, req, swap, router>>

\* adjustTransactionForGas for the adjusted coin, the estimate of
\* calculationTxGas included
LiquidityAdjustTransactionForGas ==
    /\ gas.pc = "adjustTransactionForGas"
    /\ LET allCoins == getCoinAssets(AdjustedCoinType(gas.params), gas.allCoins)
           amount   == suiAmount(gas.params)
       IN  \E amountCoins \in selectCoinAssetGreaterThanOrEqual(allCoins, amount, {}) :
              IF amountCoins = {}
              THEN GasThrow("Insufficient balance")
              ELSE IF calculateTotalBalance(allCoins) - amount > GasReserve
              THEN gas' = [gas EXCEPT !.pc = "adjusted",
                                      !.newResult = [error |-> "none", fixAmount |-> amount,
                                                     fixCoinInput |-> NoValue,
                                                     newTx |-> NoValue]]
              ELSE \E estimateGas \in GasEstimates :
                   \E gasCoins \in selectCoinAssetGreaterThanOrEqual(allCoins, estimateGas,
                                                                     amountCoins) :
                      LET newResult == AdjustAfterEstimate(allCoins, amount, estimateGas, gasCoins)
                      IN  IF newResult.error # "none"
                          THEN GasThrow(newResult.error)
                          ELSE gas' = [gas EXCEPT !.pc = "adjusted", !.newResult = newResult]
    /\ UNCHANGED <<accIn, accOut, growthGlobal, req, swap, router>>

\* buildAddLiquidityFixTokenForGas from the result of the adjustment on
BuildAddLiquidityFixTokenForGas ==
    /\ gas.pc = "adjusted"
    /\ \E tokenMax \in TokenMaxEstimates :
         LET after == AfterAdjustment(gas.tx, gas.allCoins, gas.params, gas.newResult,
                                      findAdjustCoin(gas.params).isAdjustCoinA, tokenMax)
         IN  IF after.error # "none"
             THEN gas' = [gas EXCEPT !.pc = "done", !.error = after.error,
                                     !.params = after.params]
             ELSE gas' = [gas EXCEPT !.pc = "done", !.params = after.params,
                                     !.result = after.tx]
    /\ UNCHANGED <<accIn, accOut, growthGlobal, req, swap, router>>

LiquidityNext ==
    \/ BuildAddLiquidityFixToken
    \/ LiquidityAdjustTransactionForGas
    \/ BuildAddLiquidityFixTokenForGas

LiquiditySpec == LiquidityInit /\ [][LiquidityNext]_vars

\* ---------------------------------------------------------------------------
\* C21
\* ---------------------------------------------------------------------------

\* The call has returned a transaction after an adjustment that lowered the
\* amount
ReturnedAfterCorrection ==
    /\ gas.pc = "done"
    /\ gas.error = "none"
    /\ gas.newResult.newTx # NoValue
    /\ gas.newResult.fixCoinInput # NoValue

\* The coin inputs of the returned transaction hold the corrected input with
\* the corrected amount
HoldsCorrectedInput(tx) ==
    \E k \in 1..Len(tx.moveCall.primaryCoinInputs) :
        tx.moveCall.primaryCoinInputs[k].coinInput = gas.newResult.fixCoinInput

\* C21: whenever the adjustment yields a corrected amount, the transaction
\* returned is built on newTx (it carries the gas budget of the adjustment)
\* and holds the corrected coin input, whether the adjusted coin is coin A or
\* coin B; the transaction built before the adjustment is not returned.
C21_ReturnsCorrectedTransaction ==
    ReturnedAfterCorrection
        => /\ gas.result.createdBy = "adjustTransactionForGas"
           /\ gas.result.gasBudget = gas.newResult.newTx.gasBudget
           /\ HoldsCorrectedInput(gas.result)
           /\ gas.result.createdBy # gas.tx.createdBy

====
